---- MODULE Spec2Model ----
(***************************************************************************)
(* A model of the RevBayes MCMC core: the chain driver Mcmc                *)
(* (src/src/core/analysis/mcmc/Mcmc.cpp), the model graph protocol         *)
(* (touch / getLnProbability / keep / restore / redraw on DagNode) and the *)
(* proposals of src/src/core/moves.                                        *)
(*                                                                         *)
(* The program is single threaded: one handler runs at a time.  A handler  *)
(* that loops (initializeSampler, nextCycle) is one action per loop        *)
(* iteration; pc says which handler is running and cur on which chain.     *)
(***************************************************************************)
EXTENDS Integers, Sequences, FiniteSets, TLC

(***************************************************************************)
(* Bounds of the model.                                                    *)
(***************************************************************************)
\* vector elements and scalar values range over -1 .. MaxElem
MaxElem == 2
\* length of the vector held by the vector-valued stochastic node
VecLen == 2
\* number of Model instances that can be allocated besides the template
MaxModels == 3
\* number of Mcmc objects
MaxChains == 2
\* the generation counter is explored up to this value
MaxGen == 2
\* the proposals performed by one chain are explored up to this number
MaxTried == 3
\* the number of times a tuning parameter is tuned
MaxTunes == 2

(***************************************************************************)
(* Program constants.                                                      *)
(***************************************************************************)
\* int maxNumTries = 100;  (Mcmc::initializeSampler)
maxNumTries == 100

(***************************************************************************)
(* The model graph.  Every Model instance is a copy of the same graph, so  *)
(* the shape is fixed and a Model instance is the state of its nodes.      *)
(*                                                                         *)
(*        x  (stochastic, vector valued, unclamped)                        *)
(*        |                                                                *)
(*        d  (deterministic, d = sum of the elements of x)                 *)
(*       / \                                                               *)
(*      y   z     y: stochastic, clamped (observed);  z: stochastic        *)
(***************************************************************************)
NodeKeys == {"x", "d", "y", "z"}

\* Model::getDagNodes(): the nodes of the model, in the model's own order
dagNodes == <<"y", "x", "d", "z">>

\* Model::getOrderedStochasticNodes(): the stochastic nodes, parents first
orderedStochNodes == <<"x", "y", "z">>

Parents(n) == CASE n = "x" -> {}
                [] n = "d" -> {"x"}
                [] n = "y" -> {"d"}
                [] n = "z" -> {"d"}

Children(n) == {k \in NodeKeys : n \in Parents(k)}

Descendants(n) == CASE n = "x" -> {"d", "y", "z"}
                    [] n = "d" -> {"y", "z"}
                    [] OTHER   -> {}

\* DagNode::isStochastic()
isStochastic(n) == n \in {"x", "y", "z"}

\* DagNode::isClamped()
isClamped(n) == n = "y"

ElemRange == (0 - 1) .. MaxElem

\* x inside the support / x outside the support (a negative element)
Ones == [i \in 1 .. VecLen |-> 1]
Neg == [i \in 1 .. VecLen |-> IF i = 1 THEN 0 - 1 ELSE 2]

\* the values a redraw of node n can produce: for x one inside and one
\* outside the support, for z one that d can explain and one it cannot
DrawSet(n) == IF n = "x" THEN {Ones, Neg} ELSE {<<0>>, <<VecLen + 1>>}

RECURSIVE SumSeq(_)
SumSeq(s) == IF s = <<>> THEN 0 ELSE Head(s) + SumSeq(Tail(s))

(***************************************************************************)
(* Log-probabilities.  A log-probability is either a number or not         *)
(* computable (NaN, +-infinity).                                           *)
(***************************************************************************)
Num(v) == [c |-> TRUE, v |-> v]
NaN == [c |-> FALSE, v |-> 0]

\* RbMath::isAComputableNumber
isAComputableNumber(p) == p.c

(***************************************************************************)
(* The state of one node: value, the value kept last (rollback baseline),  *)
(* cached log-probability and its baseline, the freshness flag             *)
(* (clean / dirty = touched / ready = recomputed but not kept) and the     *)
(* touched element indices of a vector value.                              *)
(***************************************************************************)
\* the current value of a node; a deterministic node that was touched
\* (needsUpdate) is recomputed from its parent when it is read
ValueOf(ns, n) ==
    IF n = "d" /\ ns["d"].flag = "dirty"
    THEN <<SumSeq(ns["x"].value)>>
    ELSE ns[n].value

\* the density of node n at its current value given its parents' values
LnPdf(ns, n) ==
    LET dv == ValueOf(ns, "d")[1]
        v  == ns[n].value
    IN CASE n = "x" -> IF \A i \in 1 .. Len(v) : v[i] >= 0
                       THEN Num(0 - SumSeq(v)) ELSE NaN
         [] n = "d" -> Num(0)
         [] n = "y" -> IF v[1] <= dv THEN Num(v[1] - dv) ELSE NaN
         [] n = "z" -> IF v[1] <= dv THEN Num(v[1] - dv) ELSE NaN

SetFlags(ns, S, f) ==
    [k \in NodeKeys |-> IF k \in S THEN [ns[k] EXCEPT !.flag = f] ELSE ns[k]]

\* (mutant) touch() that marks the node itself only
TouchNoPropagate(ns, n) == SetFlags(ns, {n}, "dirty")

\* (mutant) touch() that goes one level down, to the children
TouchChildrenOnly(ns, n) == SetFlags(ns, {n} \cup Children(n), "dirty")

\* DagNode::touch(): the node and all its descendants become dirty
Touch(ns, n) == SetFlags(ns, {n} \cup Descendants(n), "dirty")

\* DagNode::getLnProbability(): recompute when dirty, cache, return the cache
Evaluate(ns, n) ==
    IF ns[n].flag = "dirty"
    THEN [ns EXCEPT ![n] = [@ EXCEPT !.value = ValueOf(ns, n),
                                     !.lnProb = LnPdf(ns, n),
                                     !.flag = "ready"]]
    ELSE ns

\* (mutant) keep() that exchanges the value and the rollback baseline
KeepSwaps(ns, n) ==
    [k \in NodeKeys |->
        IF k \in {n} \cup Descendants(n)
        THEN [ns[k] EXCEPT !.value = ns[k].stored,
                           !.stored = ValueOf(ns, k),
                           !.storedLnProb = ns[k].lnProb,
                           !.flag = "clean"]
        ELSE ns[k]]

\* DagNode::keep(): the current value becomes the rollback baseline and the
\* node and its descendants become clean
Keep(ns, n) ==
    [k \in NodeKeys |->
        IF k \in {n} \cup Descendants(n)
        THEN [ns[k] EXCEPT !.value = ValueOf(ns, k),
                           !.stored = ValueOf(ns, k),
                           !.storedLnProb = ns[k].lnProb,
                           !.flag = "clean"]
        ELSE ns[k]]

\* (mutant) restore() that puts the value back and leaves the cache
RestoreValueOnly(ns, n) ==
    [k \in NodeKeys |->
        IF k \in {n} \cup Descendants(n)
        THEN [ns[k] EXCEPT !.value = ns[k].stored, !.flag = "clean"]
        ELSE ns[k]]

\* DagNode::restore(): back to the rollback baseline, clean
Restore(ns, n) ==
    [k \in NodeKeys |->
        IF k \in {n} \cup Descendants(n)
        THEN [ns[k] EXCEPT !.value = ns[k].stored,
                           !.lnProb = ns[k].storedLnProb,
                           !.flag = "clean"]
        ELSE ns[k]]

\* DagNode::redraw(): a fresh value v; the probability is left dirty
Redraw(ns, n, v) == Touch([ns EXCEPT ![n].value = v], n)

(***************************************************************************)
(* Model instances.  Model 0 is the template Model handed to the chain     *)
(* constructor; every clone gets the next free id.  A node is referred to  *)
(* by the Model instance it lives in and its name.  Nodes that belong to   *)
(* no Model ("w", and a node whose name is empty) live in Outside.         *)
(***************************************************************************)
Template == 0
Outside == 0 - 1
ModelIds == 0 .. MaxModels

Ref(m, k) == [m |-> m, k |-> k]

\* DagNode::getName()
getName(ref) == ref.k

\* Model::clone(): every node is duplicated; names are preserved
CloneModel(ns) == ns

(***************************************************************************)
(* Moves and monitors.  A Move holds the list of nodes it works on         *)
(* (getDagNodes) and its proposal.  Two proposals are modelled:            *)
(* VectorFixedSingleElementSlideProposal (variable, lambda, index,         *)
(* storedValue; index counts from 1) and                                   *)
(* NodeCladogenesisRejectionSampleProposal (ctmc, tau, qmap, its own list  *)
(* nodes, here pnodes, and three PathRejectionSampleProposal objects held  *)
(* by pointer: nodeProposal, leftProposal, rightProposal are ids into the  *)
(* variable paths).                                                        *)
(***************************************************************************)
NullNode == [m |-> Outside, k |-> "NULL"]

\* an update weight is a double; the model keeps weights, and the moves per
\* iteration a schedule reports, in halves: WeightUnit is the weight 1.0
WeightUnit == 2

NoPath == 0
PathIds == 1 .. 3

SlideMove(ref, l, i, w) ==
    [kind |-> "slide", nodes |-> <<ref>>, variable |-> ref, lambda |-> l,
     index |-> i, storedValue |-> 0, weight |-> w, tried |-> 0, accepted |-> 0,
     ctmc |-> NullNode, tau |-> NullNode, qmap |-> NullNode, pnodes |-> <<>>,
     nodeProposal |-> NoPath, leftProposal |-> NoPath, rightProposal |-> NoPath]

\* the constructor of NodeCladogenesisRejectionSampleProposal and of the
\* Move around it, whose node list is the proposal's getNodes()
CladoMove(n, t, q, l, w) ==
    [kind |-> "clado", nodes |-> <<n, t, q>>, variable |-> NullNode, lambda |-> l,
     index |-> 0, storedValue |-> 0, weight |-> w, tried |-> 0, accepted |-> 0,
     ctmc |-> n, tau |-> t, qmap |-> q, pnodes |-> <<n, t, q>>,
     nodeProposal |-> 1, leftProposal |-> 2, rightProposal |-> 3]

\* PathRejectionSampleProposal(n, t, q, l, nd)
PathProposal(n, t, q) == [ctmc |-> n, tau |-> t, qmap |-> q]

Monitor(refs) == [nodes |-> refs, model |-> Outside]

ReplaceIn(seq, old, new) ==
    [i \in 1 .. Len(seq) |-> IF seq[i] = old THEN new ELSE seq[i]]

\* (mutant) the proposal keeps pointing to the old node
swapNodeInternalKeepsOld(mv, oldN, newN) == mv

\* VectorFixedSingleElementSlideProposal::swapNodeInternal
swapNodeInternal(mv, oldN, newN) == [mv EXCEPT !.variable = newN]

\* PathRejectionSampleProposal::swapNode
PathSwapNode(pp, oldN, newN) ==
    IF oldN = pp.ctmc THEN [pp EXCEPT !.ctmc = newN]
    ELSE IF oldN = pp.tau THEN [pp EXCEPT !.tau = newN]
    ELSE IF oldN = pp.qmap THEN [pp EXCEPT !.qmap = newN]
    ELSE pp

\* NodeCladogenesisRejectionSampleProposal::swapNode: the three pointers of
\* the proposal; the member nodes is not written
CladoSwapNode(mv, oldN, newN) ==
    IF oldN = mv.ctmc THEN [mv EXCEPT !.ctmc = newN]
    ELSE IF oldN = mv.tau THEN [mv EXCEPT !.tau = newN]
    ELSE IF oldN = mv.qmap THEN [mv EXCEPT !.qmap = newN]
    ELSE mv

\* ... and the calls of swapNode on nodeProposal, leftProposal, rightProposal
CladoSwapPaths(mv, ps, oldN, newN) ==
    [i \in PathIds |->
        IF i \in {mv.nodeProposal, mv.leftProposal, mv.rightProposal}
        THEN PathSwapNode(ps[i], oldN, newN) ELSE ps[i]]

\* Move::swapNode: the node list of the Move and the proposal are repointed
MoveSwapNode(mv, oldN, newN) ==
    LET m1 == [mv EXCEPT !.nodes = ReplaceIn(mv.nodes, oldN, newN)]
    IN IF mv.kind = "slide" THEN swapNodeInternal(m1, oldN, newN)
       ELSE CladoSwapNode(m1, oldN, newN)

\* what Move::swapNode does to the path proposals the Move's proposal points to
MoveSwapPaths(mv, ps, oldN, newN) ==
    IF mv.kind = "clado" THEN CladoSwapPaths(mv, ps, oldN, newN) ELSE ps

\* Monitor::swapNode
MonitorSwapNode(mon, oldN, newN) ==
    [mon EXCEPT !.nodes = ReplaceIn(mon.nodes, oldN, newN)]

\* (mutant) a name that is not found falls back to the first node of the model
FindByNameOrFirst(m, name) ==
    IF name \in NodeKeys THEN Ref(m, name) ELSE Ref(m, dagNodes[1])

\* the lookup loop of Mcmc::replaceDag: the first node of the model with
\* the name, NULL when there is none
FindByName(m, name) ==
    LET hits == {i \in 1 .. Len(dagNodes) : dagNodes[i] = name}
    IN IF hits = {} THEN NullNode
       ELSE Ref(m, dagNodes[CHOOSE i \in hits : \A j \in hits : i <= j])

\* the inner loop of Mcmc::replaceDag over the nodes of one cloned move:
\* nodes is the list read before the loop, obj the clone being repointed,
\* ps the path proposals (a clone points to the same ones as its original)
RECURSIVE RebindMove(_, _, _, _, _)
RebindMove(obj, ps, nodes, j, m) ==
    IF j > Len(nodes) THEN [err |-> "", obj |-> obj, paths |-> ps]
    ELSE LET theNode == nodes[j]
             theNewNode == FindByName(m, getName(theNode))
         IN IF getName(theNode) = ""
            THEN [err |-> "variable name was lost", obj |-> obj, paths |-> ps]
            ELSE IF theNewNode = NullNode
            THEN [err |-> "Cannot find node with name", obj |-> obj, paths |-> ps]
            ELSE RebindMove(MoveSwapNode(obj, theNode, theNewNode),
                            MoveSwapPaths(obj, ps, theNode, theNewNode),
                            nodes, j + 1, m)

RECURSIVE RebindMonitor(_, _, _, _)
RebindMonitor(obj, nodes, j, m) ==
    IF j > Len(nodes) THEN [err |-> "", obj |-> obj]
    ELSE LET theNode == nodes[j]
             theNewNode == FindByName(m, getName(theNode))
         IN IF getName(theNode) = ""
            THEN [err |-> "variable name was lost", obj |-> obj]
            ELSE IF theNewNode = NullNode
            THEN [err |-> "Cannot find node with name", obj |-> obj]
            ELSE RebindMonitor(MonitorSwapNode(obj, theNode, theNewNode), nodes, j + 1, m)

\* the two outer loops of Mcmc::replaceDag; done is what has been pushed
\* onto the chain's vector so far, err the message of the exception thrown
RECURSIVE ReplaceMoves(_, _, _, _, _)
ReplaceMoves(mvs, ps, i, m, done) ==
    IF i > Len(mvs) THEN [err |-> "", list |-> done, paths |-> ps]
    ELSE LET theMove == mvs[i]
             r == RebindMove(theMove, ps, theMove.nodes, 1, m)
         IN IF r.err # "" THEN [err |-> r.err, list |-> done, paths |-> r.paths]
            ELSE ReplaceMoves(mvs, r.paths, i + 1, m, Append(done, r.obj))

RECURSIVE ReplaceMonitors(_, _, _, _)
ReplaceMonitors(mons, i, m, done) ==
    IF i > Len(mons) THEN [err |-> "", list |-> done]
    ELSE LET theMonitor == mons[i]
             r == RebindMonitor(theMonitor, theMonitor.nodes, 1, m)
         IN IF r.err # "" THEN [err |-> r.err, list |-> done]
            ELSE ReplaceMonitors(mons, i + 1, m, Append(done, r.obj))

\* Mcmc::replaceDag(mvs, mons) on a chain whose model is m
replaceDag(m, mvs, mons, ps) ==
    LET a == ReplaceMoves(mvs, ps, 1, m, <<>>)
        b == ReplaceMonitors(mons, 1, m, <<>>)
    IN IF a.err # ""
       THEN [err |-> a.err, moves |-> a.list, monitors |-> <<>>, paths |-> a.paths]
       ELSE [err |-> b.err, moves |-> a.list, monitors |-> b.list, paths |-> a.paths]

(***************************************************************************)
(* State.                                                                  *)
(***************************************************************************)
VARIABLES
    heap,        \* heap[m][k]: the state of node k of Model instance m
    nextModel,   \* the id the next Model::clone() gets
    chains,      \* chains[c]: the members of Mcmc object c
    inMoves,     \* the moves handed to the constructor (bound to the template)
    inMonitors,  \* the monitors handed to the constructor
    pc,          \* the handler in progress: "idle", "init_begin", "init_loop", "init_end", "cycle"
    cur,         \* the chain the handler in progress runs on
    caller,      \* who called initializeSampler: "ctor", "copy", "assign", "direct"
    numTries,    \* the local numTries of initializeSampler
    outcome,     \* how the last handler ended: "none", "init_returned", "init_thrown",
                 \* "replaceDag_thrown", "cycle_returned"
    errMsg,      \* the message of the exception thrown last
    errTries,    \* the number of tries the message names (0: none)
    attempts,    \* history: evaluation attempts of the running/last initializeSampler
    failures,    \* history: how many of them found a non-computable node
    evalLog,     \* history: the node calls of the last evaluation attempt
    redrawLog,   \* history: the node calls of the last redraw round
    paths,       \* paths[i]: the PathRejectionSampleProposal object i
    cyc,         \* the locals of the running nextCycle and of the Move being performed
    tmplMutated, \* history: the owner of the template Model has changed it
    description, \* what the last getStrategyDescription wrote
    monitorLog,  \* the last call of Mcmc::monitor: the chain, g, the flag, the monitors triggered
    sinceReset,  \* history: sinceReset[c]: proposal attempts on the Moves of c since reset()
    advances,    \* history: advances[c]: advancing cycles of c since its initializeSampler
    tuned,       \* a tuning parameter under Proposal::tune: before, the rate, after
    returned,    \* what the last getModelLnProbability returned, and to which chain
    started,     \* the last call of Mcmc::startMonitors: the calls made on each monitor
    rng,         \* history: what each chain took from the process-wide random number
                 \* generator and the calls of nextCycle in between, when recorded
    clado,       \* a NodeCladogenesisRejectionSampleProposal and its running prepareProposal
    treeSummary, \* the members of a TreeSummary object
    treeOut      \* how the last call on the TreeSummary object ended

\* the objects of the sampler
mcmcVars == <<heap, nextModel, chains, inMoves, inMonitors, pc, cur, caller,
              numTries, outcome, errMsg, errTries, attempts, failures, evalLog, redrawLog,
              paths, cyc, tmplMutated, description, monitorLog, sinceReset, advances,
              tuned, returned, started, rng>>

\* the objects that no handler of Mcmc works on
treeVars == <<clado, treeSummary, treeOut>>

vars == <<mcmcVars, treeVars>>

\* what the constructors, initializeSampler and nextCycle never write
obsVars == <<description, monitorLog, tuned, returned, started>>

\* what initializeSampler and the setters leave alone
cycVars == <<paths, cyc, tmplMutated>>

ChainIds == 1 .. MaxChains

NoSchedule == [type |-> "NULL", moves |-> 0, pos |-> 0]

\* the members of an Mcmc object that does not exist (yet)
NoChain ==
    [alive |-> FALSE, chainActive |-> TRUE, chainLikelihoodHeat |-> 1,
     chainPosteriorHeat |-> 1, chainIdx |-> 0, model |-> Outside,
     monitors |-> <<>>, moves |-> <<>>, schedule |-> NoSchedule,
     scheduleType |-> "random", generation |-> 0]

Call(op, n, ok) == [op |-> op, node |-> n, ok |-> ok]

\* nothing was described, monitored or tuned yet
NoDescription == [scheduleType |-> "", moves |-> 0, perIteration |-> 0]

NoMonitorCall == [chain |-> 0, g |-> 0, chainActive |-> TRUE, triggered |-> 0]

NoTune == [before |-> <<0, 1>>, rate |-> <<0, 1>>, lambda |-> <<0, 1>>, tunes |-> 0]

\* getModelLnProbability and startMonitors were not called yet
NoReturn == [chain |-> 0, pp |-> Num(0)]

NoStart == [chain |-> 0, numCycles |-> 0, chainActive |-> TRUE, calls |-> <<>>]

\* GLOBAL_RNG: the values are arbitrary; what is recorded, when the record is
\* on, is who took which value, in the order taken
Rng(on) == [on |-> on, taken |-> [c \in ChainIds |-> <<>>]]

Event(op, v) == [op |-> op, v |-> v]

RECURSIVE TakeAll(_, _, _)
TakeAll(r, c, evs) ==
    IF ~r.on \/ evs = <<>> THEN r
    ELSE TakeAll([r EXCEPT !.taken[c] = Append(@, Head(evs))], c, Tail(evs))

(***************************************************************************)
(* Node states and Model instances as they are built.                      *)
(***************************************************************************)
NodeRec(val) == [value |-> val, stored |-> val, lnProb |-> Num(0),
                 storedLnProb |-> Num(0), flag |-> "dirty", touchedElems |-> {}]

ModelOf(xv, yv, zv) ==
    [k \in NodeKeys |-> NodeRec(CASE k = "x" -> xv
                                    [] k = "d" -> <<0>>
                                    [] k = "y" -> yv
                                    [] k = "z" -> zv)]

\* an observation no value of x can explain
Hopeless == <<VecLen * MaxElem + 1>>

\* no Model instance allocated here yet
Blank == ModelOf(Ones, <<1>>, <<0>>)

(***************************************************************************)
(* Mcmc::initializeSampler.                                                *)
(***************************************************************************)
\* the loop "first we touch all nodes so that the likelihood is dirty"
RECURSIVE TouchAll(_, _)
TouchAll(ns, i) ==
    IF i > Len(dagNodes) THEN ns ELSE TouchAll(Touch(ns, dagNodes[i]), i + 1)

\* (mutant) every stochastic node is redrawn, clamped or not
RedrawStepClampedToo(r, node, draws) ==
    IF isStochastic(node)
    THEN [ns |-> Redraw(r.ns, node, IF isClamped(node) THEN <<0>> ELSE draws[node]),
          log |-> Append(r.log, Call("redraw", node, TRUE))]
    ELSE r

\* one step of the loops over orderedStochNodes: an unclamped stochastic
\* node is redrawn, a clamped node is touched
RedrawStep(r, node, draws) ==
    IF ~isClamped(node) /\ isStochastic(node)
    THEN [ns |-> Redraw(r.ns, node, draws[node]),
          log |-> Append(r.log, Call("redraw", node, TRUE))]
    ELSE IF isClamped(node)
    THEN [ns |-> Touch(r.ns, node),
          log |-> Append(r.log, Call("touch", node, TRUE))]
    ELSE r

RECURSIVE RedrawFrom(_, _, _)
RedrawFrom(r, i, draws) ==
    IF i > Len(orderedStochNodes) THEN r
    ELSE RedrawFrom(RedrawStep(r, orderedStochNodes[i], draws), i + 1, draws)

RedrawRound(ns, draws) == RedrawFrom([ns |-> ns, log |-> <<>>], 1, draws)

\* the evaluation loop of one try: touch and evaluate node after node and
\* stop at the first node whose lnProb is not a computable number
RECURSIVE EvalFrom(_, _, _, _)
EvalFrom(ns, i, lnProbability, log) ==
    IF i > Len(dagNodes)
    THEN [ns |-> ns, failed |-> FALSE, lnProbability |-> lnProbability, log |-> log]
    ELSE LET node == dagNodes[i]
             ns1 == Evaluate(Touch(ns, node), node)
             lnProb == ns1[node].lnProb
             log1 == log \o <<Call("touch", node, TRUE),
                              Call("getLnProbability", node, isAComputableNumber(lnProb))>>
         IN IF ~isAComputableNumber(lnProb)
            THEN [ns |-> ns1, failed |-> TRUE, lnProbability |-> lnProbability, log |-> log1]
            ELSE EvalFrom(ns1, i + 1, lnProbability + lnProb.v, log1)

\* the loop "now we keep all nodes so that the likelihood is stored"
RECURSIVE KeepAll(_, _, _)
KeepAll(ns, i, log) ==
    IF i > Len(dagNodes) THEN [ns |-> ns, log |-> log]
    ELSE KeepAll(Keep(ns, dagNodes[i]), i + 1, Append(log, Call("keep", dagNodes[i], TRUE)))

\* (mutant) a type string that is not known gives a sequential schedule
NewScheduleElseSequential(c, scheduleType) ==
    [type |-> IF scheduleType = "single" THEN "single" ELSE "sequential",
     moves |-> c, pos |-> 0]

\* the schedule created at the end of initializeSampler over &moves
NewSchedule(c, scheduleType) ==
    [type |-> IF scheduleType = "sequential" THEN "sequential"
              ELSE IF scheduleType = "single" THEN "single"
              ELSE "random",
     moves |-> c, pos |-> 0]

\* (mutant) the loop runs once more than the cap
TryAgainOffByOne(n) == n <= maxNumTries

\* the loop condition of "for ( ; numTries < maxNumTries; numTries ++ )"
TryAgain(n) == n < maxNumTries

\* (mutant) the test after the loop fires one try early
TriesExhaustedEarly(n) == n >= maxNumTries - 1

\* (mutant) the test after the loop never fires
TriesExhaustedGt(n) == n > maxNumTries

\* the test "if ( numTries == maxNumTries )" after the loop
TriesExhausted(n) == n = maxNumTries

DrawChoices == [x : DrawSet("x"), z : DrawSet("z")]

\* what a redraw round takes from the generator
RedrawEvents(draws) == <<Event("redraw", draws.x[1]), Event("redraw", draws.z[1])>>

\* (mutant) the nodes are redrawn before the first try whatever the flag is
InitBeginRedrawsAlways ==
    /\ pc = "init_begin"
    /\ \E touched \in {TouchAll(heap[chains[cur].model], 1)} :
         IF chains[cur].chainActive \in BOOLEAN
         THEN \E draws \in DrawChoices :
                \E round \in {RedrawRound(touched, draws)} :
                   /\ heap' = [heap EXCEPT ![chains[cur].model] = round.ns]
                   /\ redrawLog' = round.log
                   /\ rng' = TakeAll(rng, cur, RedrawEvents(draws))
         ELSE /\ heap' = [heap EXCEPT ![chains[cur].model] = touched]
              /\ redrawLog' = <<>>
              /\ rng' = rng
    /\ chains' = [chains EXCEPT ![cur].schedule = NoSchedule]
    /\ numTries' = 0
    /\ attempts' = 0
    /\ failures' = 0
    /\ evalLog' = <<>>
    /\ outcome' = "none"
    /\ pc' = "init_loop"
    /\ UNCHANGED <<nextModel, inMoves, inMonitors, treeVars, cur, caller, errMsg, errTries, cycVars,
                   obsVars, sinceReset, advances>>

\* (mutant) the previous schedule is kept until the new one is created
InitBeginKeepsSchedule ==
    /\ pc = "init_begin"
    /\ \E touched \in {TouchAll(heap[chains[cur].model], 1)} :
         IF chains[cur].chainActive = FALSE
         THEN \E draws \in DrawChoices :
                \E round \in {RedrawRound(touched, draws)} :
                   /\ heap' = [heap EXCEPT ![chains[cur].model] = round.ns]
                   /\ redrawLog' = round.log
                   /\ rng' = TakeAll(rng, cur, RedrawEvents(draws))
         ELSE /\ heap' = [heap EXCEPT ![chains[cur].model] = touched]
              /\ redrawLog' = <<>>
              /\ rng' = rng
    /\ chains' = chains
    /\ numTries' = 0
    /\ attempts' = 0
    /\ failures' = 0
    /\ evalLog' = <<>>
    /\ outcome' = "none"
    /\ pc' = "init_loop"
    /\ UNCHANGED <<nextModel, inMoves, inMonitors, treeVars, cur, caller, errMsg, errTries, cycVars,
                   obsVars, sinceReset, advances>>

\* lines 299-345: drop the schedule, touch every node, redraw when inactive
InitBegin ==
    /\ pc = "init_begin"
    /\ \E touched \in {TouchAll(heap[chains[cur].model], 1)} :
         IF chains[cur].chainActive = FALSE
         THEN \E draws \in DrawChoices :
                \E round \in {RedrawRound(touched, draws)} :
                   /\ heap' = [heap EXCEPT ![chains[cur].model] = round.ns]
                   /\ redrawLog' = round.log
                   /\ rng' = TakeAll(rng, cur, RedrawEvents(draws))
         ELSE /\ heap' = [heap EXCEPT ![chains[cur].model] = touched]
              /\ redrawLog' = <<>>
              /\ rng' = rng
    /\ chains' = [chains EXCEPT ![cur].schedule = NoSchedule]
    /\ numTries' = 0
    /\ attempts' = 0
    /\ failures' = 0
    /\ evalLog' = <<>>
    /\ outcome' = "none"
    /\ pc' = "init_loop"
    /\ UNCHANGED <<nextModel, inMoves, inMonitors, treeVars, cur, caller, errMsg, errTries, cycVars,
                   obsVars, sinceReset, advances>>

\* one iteration of the loop of lines 347-409
InitAttempt ==
    /\ pc = "init_loop"
    /\ TryAgain(numTries)
    /\ \E ev \in {EvalFrom(heap[chains[cur].model], 1, 0, <<>>)} :
       \E kept \in {KeepAll(ev.ns, 1, ev.log)} :
         /\ evalLog' = kept.log
         /\ IF ev.failed
            THEN \E draws \in DrawChoices :
                   \E round \in {RedrawRound(kept.ns, draws)} :
                      /\ heap' = [heap EXCEPT ![chains[cur].model] = round.ns]
                      /\ redrawLog' = round.log
                      /\ failures' = failures + 1
                      /\ numTries' = numTries + 1
                      /\ rng' = TakeAll(rng, cur, RedrawEvents(draws))
                      /\ pc' = IF TryAgain(numTries + 1) THEN "init_loop" ELSE "init_end"
            ELSE /\ heap' = [heap EXCEPT ![chains[cur].model] = kept.ns]
                 /\ redrawLog' = <<>>
                 /\ failures' = failures
                 /\ numTries' = numTries
                 /\ rng' = rng
                 /\ pc' = "init_end"
    /\ attempts' = attempts + 1
    /\ UNCHANGED <<nextModel, chains, inMoves, inMonitors, treeVars, cur, caller, outcome, errMsg,
                   errTries, cycVars,
                   obsVars, sinceReset, advances>>

\* Mcmc::initializeMonitors, called after initializeSampler by the
\* constructors and by operator=
initializeMonitors(ch) ==
    [ch EXCEPT !.monitors = [i \in 1 .. Len(ch.monitors) |->
                                [ch.monitors[i] EXCEPT !.model = ch.model]]]

\* (mutant) the generation counter is left as it is
InitFinishKeepsGeneration ==
    /\ pc = "init_end"
    /\ LET c == cur
       IN IF TriesExhausted(numTries)
          THEN /\ outcome' = "init_thrown"
               /\ errMsg' = "Unable to find a starting state with computable probability"
               /\ errTries' = IF numTries > 1 THEN numTries ELSE 0
               /\ chains' = IF caller \in {"ctor", "copy"}
                            THEN [chains EXCEPT ![c].alive = FALSE]
                            ELSE chains
               /\ heap' = IF caller \in {"ctor", "copy"}
                          THEN [heap EXCEPT ![chains[c].model] = Blank]
                          ELSE heap
               /\ UNCHANGED advances
          ELSE /\ outcome' = "init_returned"
               /\ UNCHANGED <<errMsg, errTries, heap>>
               /\ advances' = [advances EXCEPT ![c] = 0]
               /\ chains' =
                    LET ch == [chains[c] EXCEPT
                                  !.schedule = NewSchedule(c, chains[c].scheduleType),
                                  !.generation = @]
                    IN [chains EXCEPT ![c] = IF caller = "direct" THEN ch
                                             ELSE initializeMonitors(ch)]
    /\ pc' = "idle"
    /\ UNCHANGED <<nextModel, inMoves, inMonitors, treeVars, cur, caller, numTries,
                   attempts, failures, evalLog, redrawLog, cycVars,
                   obsVars, sinceReset,
                   rng>>

\* lines 411-438: throw when the tries are used up, else create the schedule.
\* A constructor that throws leaves no Mcmc object: nothing points to its
\* Model any more, and the slot is cleared.
InitFinish ==
    /\ pc = "init_end"
    /\ LET c == cur
       IN IF TriesExhausted(numTries)
          THEN /\ outcome' = "init_thrown"
               /\ errMsg' = "Unable to find a starting state with computable probability"
               /\ errTries' = IF numTries > 1 THEN numTries ELSE 0
               /\ chains' = IF caller \in {"ctor", "copy"}
                            THEN [chains EXCEPT ![c].alive = FALSE]
                            ELSE chains
               /\ heap' = IF caller \in {"ctor", "copy"}
                          THEN [heap EXCEPT ![chains[c].model] = Blank]
                          ELSE heap
               /\ UNCHANGED advances
          ELSE /\ outcome' = "init_returned"
               /\ UNCHANGED <<errMsg, errTries, heap>>
               /\ advances' = [advances EXCEPT ![c] = 0]
               /\ chains' =
                    LET ch == [chains[c] EXCEPT
                                  !.schedule = NewSchedule(c, chains[c].scheduleType),
                                  !.generation = 0]
                    IN [chains EXCEPT ![c] = IF caller = "direct" THEN ch
                                             ELSE initializeMonitors(ch)]
    /\ pc' = "idle"
    /\ UNCHANGED <<nextModel, inMoves, inMonitors, treeVars, cur, caller, numTries,
                   attempts, failures, evalLog, redrawLog, cycVars,
                   obsVars, sinceReset,
                   rng>>

\* a call of the public method initializeSampler on an existing chain
CallInitializeSampler(c) ==
    /\ pc = "idle"
    /\ chains[c].alive
    /\ pc' = "init_begin"
    /\ cur' = c
    /\ caller' = "direct"
    /\ UNCHANGED <<heap, nextModel, chains, inMoves, inMonitors, treeVars, numTries, outcome,
                   errMsg, errTries, attempts, failures, evalLog, redrawLog, cycVars,
                   obsVars, sinceReset, advances,
                   rng>>

\* Mcmc::setChainActive
setChainActive(c, tf) ==
    /\ pc = "idle"
    /\ chains[c].alive
    /\ chains' = [chains EXCEPT ![c].chainActive = tf]
    /\ UNCHANGED <<heap, nextModel, inMoves, inMonitors, treeVars, pc, cur, caller, numTries,
                   outcome, errMsg, errTries, attempts, failures, evalLog, redrawLog, cycVars,
                   obsVars, sinceReset, advances,
                   rng>>

(***************************************************************************)
(* Mcmc::Mcmc(const Model& m, mvs, mons): the member initialisers and      *)
(* replaceDag; initializeSampler and initializeMonitors follow as the      *)
(* init steps.  An exception of replaceDag ends the construction.          *)
(***************************************************************************)
Construct(c) ==
    /\ pc = "idle"
    /\ ~chains[c].alive
    /\ nextModel <= MaxModels
    /\ LET m == nextModel
           rd == replaceDag(m, inMoves, inMonitors, paths)
           ch == [NoChain EXCEPT !.alive = (rd.err = ""), !.model = m,
                                 !.moves = rd.moves, !.monitors = rd.monitors]
       IN /\ heap' = IF rd.err # "" THEN heap
                     ELSE [heap EXCEPT ![m] = CloneModel(heap[Template])]
          /\ nextModel' = m + 1
          /\ chains' = [chains EXCEPT ![c] = ch]
          /\ paths' = rd.paths
          /\ IF rd.err # ""
             THEN /\ pc' = "idle"
                  /\ outcome' = "replaceDag_thrown"
                  /\ errMsg' = rd.err
                  /\ errTries' = 0
             ELSE /\ pc' = "init_begin"
                  /\ outcome' = "none"
                  /\ UNCHANGED <<errMsg, errTries>>
    /\ cur' = c
    /\ caller' = "ctor"
    /\ numTries' = 0
    /\ attempts' = 0
    /\ failures' = 0
    /\ evalLog' = <<>>
    /\ redrawLog' = <<>>
    /\ UNCHANGED <<inMoves, inMonitors, treeVars, cyc, tmplMutated,
                   obsVars, sinceReset, advances,
                   rng>>

(***************************************************************************)
(* Mcmc::Mcmc(const Mcmc &m): the members are copied, the model is cloned  *)
(* from m's model, and the moves and monitors of m are cloned and          *)
(* repointed; initializeSampler and initializeMonitors follow.             *)
(***************************************************************************)
CopyConstruct(c, src) ==
    /\ pc = "idle"
    /\ c # src
    /\ ~chains[c].alive
    /\ chains[src].alive
    /\ nextModel <= MaxModels
    /\ LET m == nextModel
           rd == replaceDag(m, chains[src].moves, chains[src].monitors, paths)
           ch == [chains[src] EXCEPT !.alive = (rd.err = ""), !.model = m,
                                     !.moves = rd.moves, !.monitors = rd.monitors,
                                     !.schedule = NoSchedule]
       IN /\ heap' = IF rd.err # "" THEN heap
                     ELSE [heap EXCEPT ![m] = CloneModel(heap[chains[src].model])]
          /\ nextModel' = m + 1
          /\ chains' = [chains EXCEPT ![c] = ch]
          /\ paths' = rd.paths
          /\ IF rd.err # ""
             THEN /\ pc' = "idle"
                  /\ outcome' = "replaceDag_thrown"
                  /\ errMsg' = rd.err
                  /\ errTries' = 0
             ELSE /\ pc' = "init_begin"
                  /\ outcome' = "none"
                  /\ UNCHANGED <<errMsg, errTries>>
    /\ cur' = c
    /\ caller' = "copy"
    /\ sinceReset' = [sinceReset EXCEPT ![c] = sinceReset[src]]
    /\ numTries' = 0
    /\ attempts' = 0
    /\ failures' = 0
    /\ evalLog' = <<>>
    /\ redrawLog' = <<>>
    /\ UNCHANGED <<inMoves, inMonitors, treeVars, cyc, tmplMutated,
                   obsVars, advances,
                   rng>>

(***************************************************************************)
(* Mcmc::operator=(const Mcmc &m) with this != &m: the model is deleted    *)
(* and replaced by a clone of m's model, the moves and monitors of m are   *)
(* cloned and repointed; no other member is assigned.                      *)
(***************************************************************************)
Assign(c, src) ==
    /\ pc = "idle"
    /\ c # src
    /\ chains[c].alive
    /\ chains[src].alive
    /\ nextModel <= MaxModels
    /\ LET m == nextModel
           rd == replaceDag(m, chains[src].moves, chains[src].monitors, paths)
           ch == [chains[c] EXCEPT !.model = m, !.moves = rd.moves,
                                   !.monitors = rd.monitors]
       IN /\ heap' = [heap EXCEPT ![chains[c].model] = Blank,
                                  ![m] = CloneModel(heap[chains[src].model])]
          /\ nextModel' = m + 1
          /\ chains' = [chains EXCEPT ![c] = ch]
          /\ paths' = rd.paths
          /\ IF rd.err # ""
             THEN /\ pc' = "idle"
                  /\ outcome' = "replaceDag_thrown"
                  /\ errMsg' = rd.err
                  /\ errTries' = 0
             ELSE /\ pc' = "init_begin"
                  /\ outcome' = "none"
                  /\ UNCHANGED <<errMsg, errTries>>
    /\ cur' = c
    /\ caller' = "assign"
    /\ sinceReset' = [sinceReset EXCEPT ![c] = sinceReset[src]]
    /\ numTries' = 0
    /\ attempts' = 0
    /\ failures' = 0
    /\ evalLog' = <<>>
    /\ redrawLog' = <<>>
    /\ UNCHANGED <<inMoves, inMonitors, treeVars, cyc, tmplMutated,
                   obsVars, advances,
                   rng>>

(***************************************************************************)
(* The move schedules.  A schedule works on the Move list of the chain     *)
(* that created it (schedule.moves is that chain).                         *)
(***************************************************************************)
RECURSIVE SumWeights(_)
SumWeights(mvs) == IF mvs = <<>> THEN 0 ELSE Head(mvs).weight + SumWeights(Tail(mvs))

\* (mutant) every schedule reports the sum of the weights
getNumberMovesPerIterationSums(sched, mvs) == SumWeights(mvs)

\* MoveSchedule::getNumberMovesPerIteration, in halves
getNumberMovesPerIteration(sched, mvs) ==
    IF Len(mvs) = 0 THEN 0
    ELSE IF sched.type = "sequential" THEN WeightUnit * Len(mvs)
    ELSE IF sched.type = "single" THEN WeightUnit
    ELSE SumWeights(mvs)

\* the Moves a schedule may select
Selectable(mvs) == {i \in 1 .. Len(mvs) : mvs[i].weight > 0}

\* (mutant) the schedule looks at no weight
nextMoveAnyWeight(sched, mvs, generation) ==
    IF sched.type = "sequential" THEN {(sched.pos % Len(mvs)) + 1}
    ELSE 1 .. Len(mvs)

\* MoveSchedule::nextMove: the moves the call can return.  The sequential
\* schedule goes through the list in its order, from the Move after the one
\* it returned last; the two random schedules draw.  When no Move can be
\* selected there is nothing to return.
nextMove(sched, mvs, generation) ==
    IF sched.type = "sequential"
    THEN {((sched.pos + k - 1) % Len(mvs)) + 1 : k \in
             {k \in 1 .. Len(mvs) :
                 /\ ((sched.pos + k - 1) % Len(mvs)) + 1 \in Selectable(mvs)
                 /\ \A j \in 1 .. k - 1 :
                       ((sched.pos + j - 1) % Len(mvs)) + 1 \notin Selectable(mvs)}}
    ELSE Selectable(mvs)

(***************************************************************************)
(* VectorFixedSingleElementSlideProposal.  uniform01() is drawn from the   *)
(* grid 0, 1/4, 2/4, 3/4 and lambda is a multiple of 4, so that            *)
(* delta = lambda * (u - 0.5) is an integer.                               *)
(***************************************************************************)
Uniform01 == {0, 1, 2, 3}

SlideDelta(lambda, u) == (lambda * (u - 2)) \div 4

\* (mutant) doProposal that slides every element of the vector
doProposalSlidesAll(h, mv, u) ==
    LET n == mv.variable
        val == h[n.m][n.k].value
        delta == SlideDelta(mv.lambda, u)
    IN [heap |-> [h EXCEPT ![n.m][n.k].value = [i \in DOMAIN val |-> val[i] + delta],
                           ![n.m][n.k].touchedElems = @ \cup {mv.index}],
        mv |-> [mv EXCEPT !.storedValue = val[mv.index]],
        lnHastings |-> 0]

\* doProposal: remember the element, slide it, record its index as touched
doProposal(h, mv, u) ==
    LET n == mv.variable
        val == h[n.m][n.k].value
        delta == SlideDelta(mv.lambda, u)
    IN [heap |-> [h EXCEPT ![n.m][n.k].value = [val EXCEPT ![mv.index] = @ + delta],
                           ![n.m][n.k].touchedElems = @ \cup {mv.index}],
        mv |-> [mv EXCEPT !.storedValue = val[mv.index]],
        lnHastings |-> 0]

\* (mutant) the element is not put back
undoProposalNoReset(h, mv) ==
    [h EXCEPT ![mv.variable.m][mv.variable.k].touchedElems = {}]

\* undoProposal: put the element back, clear the touched indices
undoProposal(h, mv) ==
    LET n == mv.variable
    IN [h EXCEPT ![n.m][n.k].value = [@ EXCEPT ![mv.index] = mv.storedValue],
                 ![n.m][n.k].touchedElems = {}]

\* (mutant) cleanProposal that clears nothing
cleanProposalKeepsIndices(h, mv) == h

\* cleanProposal: clear the touched indices
cleanProposal(h, mv) ==
    [h EXCEPT ![mv.variable.m][mv.variable.k].touchedElems = {}]

(***************************************************************************)
(* Move::perform on the nodes of the Move (getDagNodes): touch them,       *)
(* evaluate them and the nodes they affect, decide, then keep or restore.  *)
(***************************************************************************)
RECURSIVE TouchNodes(_, _, _)
TouchNodes(h, nodes, i) ==
    IF i > Len(nodes) THEN h
    ELSE TouchNodes([h EXCEPT ![nodes[i].m] = Touch(@, nodes[i].k)], nodes, i + 1)

RECURSIVE KeepNodes(_, _, _)
KeepNodes(h, nodes, i) ==
    IF i > Len(nodes) THEN h
    ELSE KeepNodes([h EXCEPT ![nodes[i].m] = Keep(@, nodes[i].k)], nodes, i + 1)

RECURSIVE RestoreNodes(_, _, _)
RestoreNodes(h, nodes, i) ==
    IF i > Len(nodes) THEN h
    ELSE RestoreNodes([h EXCEPT ![nodes[i].m] = Restore(@, nodes[i].k)], nodes, i + 1)

\* the nodes whose probability a change of the Move's nodes can change
Affected(nodes) ==
    {Ref(nodes[i].m, k) : i \in 1 .. Len(nodes), k \in NodeKeys} \cap
    UNION {{nodes[i]} \cup {Ref(nodes[i].m, d) : d \in Descendants(nodes[i].k)} :
             i \in 1 .. Len(nodes)}

\* getLnProbability on every affected node
RECURSIVE EvaluateNodes(_, _)
EvaluateNodes(h, refs) ==
    IF refs = {} THEN h
    ELSE LET r == CHOOSE r \in refs : TRUE
         IN EvaluateNodes([h EXCEPT ![r.m] = Evaluate(@, r.k)], refs \ {r})

\* the change of the (likelihood or prior) partition of the affected nodes;
\* not computable when one of the new probabilities is not
RECURSIVE LnRatio(_, _, _)
LnRatio(h, refs, clamped) ==
    IF refs = {} THEN Num(0)
    ELSE LET r == CHOOSE r \in refs : TRUE
             rest == LnRatio(h, refs \ {r}, clamped)
             nd == h[r.m][r.k]
         IN IF ~isAComputableNumber(nd.lnProb) \/ ~isAComputableNumber(rest) THEN NaN
            ELSE IF isClamped(r.k) = clamped
            THEN Num(rest.v + nd.lnProb.v - nd.storedLnProb.v)
            ELSE rest

\* the outcomes of the Metropolis test log(u) < lnAcceptanceRatio
Acceptances(lik, prior, lnHastings, lHeat, pHeat) ==
    IF ~isAComputableNumber(lik) \/ ~isAComputableNumber(prior) THEN {FALSE}
    ELSE IF lHeat * lik.v + pHeat * prior.v + lnHastings >= 0 THEN {TRUE}
    ELSE BOOLEAN

\* the test log(u) < lnAcceptanceRatio for u = v/4 and an integer ratio:
\* log(0) is below every number, log(1/4) = -1.39, log(1/2) and log(3/4)
\* are between -1 and 0
Accepts(lnAcceptanceRatio, v) ==
    CASE v = 0 -> TRUE
      [] v = 1 -> lnAcceptanceRatio >= 0 - 1
      [] OTHER -> lnAcceptanceRatio >= 0

\* (mutant) the decision does not depend on the number drawn
AcceptDrawsAny(lik, prior, lnHastings, lHeat, pHeat, a) == Uniform01

\* the numbers u = v/4 that give the outcome a of the test
AcceptDraws(lik, prior, lnHastings, lHeat, pHeat, a) ==
    {v \in Uniform01 :
        a = (/\ isAComputableNumber(lik)
             /\ isAComputableNumber(prior)
             /\ Accepts(lHeat * lik.v + pHeat * prior.v + lnHastings, v))}

(***************************************************************************)
(* Mcmc::nextCycle.  cyc holds its locals: proposals, the loop counter i,  *)
(* advanceCycle, and for the Move being performed its position in the      *)
(* Move list, the phase of Move::perform, the random number drawn, the     *)
(* decision, and (history) the chain's Model as it was before the Move     *)
(* and whether a log-probability read in this call was not computable.     *)
(***************************************************************************)
NoCycle == [phase |-> "idle", i |-> 0, proposals |-> 0, advanceCycle |-> FALSE,
            move |-> 0, u |-> 0, pre |-> Blank, accept |-> FALSE,
            movesPerIteration |-> 0, requests |-> <<>>, calls |-> <<>>,
            performed |-> 0, lHeat |-> 0, pHeat |-> 0, notComputable |-> FALSE]

\* (mutant) the conversion to size_t alone, which truncates
RoundDown(h) == h \div WeightUnit

\* size_t( round( x ) ) for x >= 0 given in halves: halves go away from zero
Round(h) == (h + 1) \div WeightUnit

RECURSIVE SumTried(_)
SumTried(mvs) == IF mvs = <<>> THEN 0 ELSE Head(mvs).tried + SumTried(Tail(mvs))

\* the Move list the schedule of chain c works on
ScheduledMoves(c) == chains[chains[c].schedule.moves].moves

\* Mcmc::nextCycle(advanceCycle), up to the loop; the record of the last
\* initializeSampler ends here
CycleBegin(c, advanceCycle) ==
    /\ pc = "idle"
    /\ chains[c].alive
    /\ chains[c].schedule # NoSchedule
    /\ chains[c].generation < MaxGen
    /\ \E mpi \in {getNumberMovesPerIteration(chains[c].schedule, ScheduledMoves(c))} :
       \E proposals \in {Round(mpi)} :
         /\ SumTried(chains[c].moves) + proposals <= MaxTried
         /\ cyc' = [NoCycle EXCEPT !.proposals = proposals, !.advanceCycle = advanceCycle,
                                   !.movesPerIteration = mpi]
    /\ rng' = TakeAll(rng, c, <<Event("nextCycle", IF advanceCycle THEN 1 ELSE 0)>>)
    /\ pc' = "cycle"
    /\ cur' = c
    /\ outcome' = "none"
    /\ numTries' = 0
    /\ attempts' = 0
    /\ failures' = 0
    /\ evalLog' = <<>>
    /\ redrawLog' = <<>>
    /\ UNCHANGED <<heap, nextModel, chains, inMoves, inMonitors, treeVars, caller,
                   errMsg, errTries, paths, tmplMutated,
                   obsVars, sinceReset, advances>>

\* schedule->nextMove( generation ), the call of
\* theMove.perform( chainLikelihoodHeat, chainPosteriorHeat ) and
\* Proposal::prepareProposal; the two random schedules draw the Move
MovePrepare ==
    /\ pc = "cycle"
    /\ cyc.phase = "idle"
    /\ cyc.i < cyc.proposals
    /\ \E k \in nextMove(chains[cur].schedule, ScheduledMoves(cur), chains[cur].generation) :
         /\ cyc' = [cyc EXCEPT !.phase = "prepared", !.move = k,
                               !.pre = heap[chains[cur].model],
                               !.requests = Append(@, chains[cur].generation),
                               !.calls = <<"prepareProposal">>,
                               !.lHeat = chains[cur].chainLikelihoodHeat,
                               !.pHeat = chains[cur].chainPosteriorHeat]
         /\ rng' = IF chains[cur].schedule.type = "sequential" THEN rng
                   ELSE TakeAll(rng, cur, <<Event("nextMove", k)>>)
         /\ chains' = [chains EXCEPT ![cur].schedule.pos =
                          IF chains[cur].schedule.type = "sequential" THEN k ELSE @]
    /\ UNCHANGED <<heap, nextModel, inMoves, inMonitors, treeVars, pc, cur, caller, numTries,
                   outcome, errMsg, errTries, attempts, failures, evalLog, redrawLog,
                   paths, tmplMutated,
                   obsVars, sinceReset, advances>>

\* Proposal::doProposal, then touch() on the nodes of the Move
MoveApply ==
    /\ pc = "cycle"
    /\ cyc.phase = "prepared"
    /\ LET sc == chains[cur].schedule.moves
           mv == chains[sc].moves[cyc.move]
       IN \E u \in Uniform01 :
            \E done \in {doProposal(heap, mv, u)} :
              /\ done.heap[mv.variable.m][mv.variable.k].value[mv.index] \in ElemRange
              /\ heap' = TouchNodes(done.heap, mv.nodes, 1)
              /\ chains' = [chains EXCEPT ![sc].moves[cyc.move] = done.mv]
              /\ cyc' = [cyc EXCEPT !.phase = "applied", !.u = u,
                                    !.calls = @ \o <<"doProposal", "touch">>]
              /\ rng' = TakeAll(rng, cur, <<Event("uniform01", u)>>)
    /\ UNCHANGED <<nextModel, inMoves, inMonitors, treeVars, pc, cur, caller, numTries,
                   outcome, errMsg, errTries, attempts, failures, evalLog, redrawLog,
                   paths, tmplMutated,
                   obsVars, sinceReset, advances>>

\* getLnProbability on the affected nodes and the Metropolis test
MoveDecide ==
    /\ pc = "cycle"
    /\ cyc.phase = "applied"
    /\ LET sc == chains[cur].schedule.moves
           mv == chains[sc].moves[cyc.move]
           refs == Affected(mv.nodes)
       IN \E h \in {EvaluateNodes(heap, refs)} :
            /\ heap' = h
            /\ \E a \in Acceptances(LnRatio(h, refs, TRUE), LnRatio(h, refs, FALSE), 0,
                                    cyc.lHeat, cyc.pHeat) :
               \E v \in AcceptDraws(LnRatio(h, refs, TRUE), LnRatio(h, refs, FALSE), 0,
                                    cyc.lHeat, cyc.pHeat, a) :
                 /\ cyc' = [cyc EXCEPT !.phase = "decided", !.accept = a,
                                       !.calls = Append(@, "getLnProbability"),
                                       !.notComputable =
                                           @ \/ \E k \in NodeKeys :
                                                  ~isAComputableNumber(
                                                      h[chains[cur].model][k].lnProb)]
                 /\ rng' = TakeAll(rng, cur, <<Event("uniform01", v)>>)
    /\ UNCHANGED <<nextModel, chains, inMoves, inMonitors, treeVars, pc, cur, caller, numTries,
                   outcome, errMsg, errTries, attempts, failures, evalLog, redrawLog,
                   paths, tmplMutated,
                   obsVars, sinceReset, advances>>

\* accepted: keep() on the nodes of the Move, Proposal::cleanProposal
MoveAccept ==
    /\ pc = "cycle"
    /\ cyc.phase = "decided"
    /\ cyc.accept
    /\ LET sc == chains[cur].schedule.moves
           mv == chains[sc].moves[cyc.move]
       IN /\ heap' = cleanProposal(KeepNodes(heap, mv.nodes, 1), mv)
          /\ chains' = [chains EXCEPT ![sc].moves[cyc.move].tried = @ + 1,
                                      ![sc].moves[cyc.move].accepted = @ + 1]
    /\ cyc' = [cyc EXCEPT !.phase = "accepted",
                          !.calls = @ \o <<"keep", "cleanProposal">>]
    /\ sinceReset' = [sinceReset EXCEPT ![chains[cur].schedule.moves] = @ + 1]
    /\ UNCHANGED <<nextModel, inMoves, inMonitors, treeVars, pc, cur, caller, numTries,
                   outcome, errMsg, errTries, attempts, failures, evalLog, redrawLog,
                   paths, tmplMutated,
                   obsVars, advances,
                   rng>>

\* rejected: Proposal::undoProposal ...
MoveUndo ==
    /\ pc = "cycle"
    /\ cyc.phase = "decided"
    /\ ~cyc.accept
    /\ LET sc == chains[cur].schedule.moves
           mv == chains[sc].moves[cyc.move]
       IN heap' = undoProposal(heap, mv)
    /\ cyc' = [cyc EXCEPT !.phase = "undone", !.calls = Append(@, "undoProposal")]
    /\ UNCHANGED <<nextModel, chains, inMoves, inMonitors, treeVars, pc, cur, caller, numTries,
                   outcome, errMsg, errTries, attempts, failures, evalLog, redrawLog,
                   paths, tmplMutated,
                   obsVars, sinceReset, advances,
                   rng>>

\* ... then restore() on the nodes of the Move
MoveRestore ==
    /\ pc = "cycle"
    /\ cyc.phase = "undone"
    /\ LET sc == chains[cur].schedule.moves
           mv == chains[sc].moves[cyc.move]
       IN /\ heap' = RestoreNodes(heap, mv.nodes, 1)
          /\ chains' = [chains EXCEPT ![sc].moves[cyc.move].tried = @ + 1]
    /\ cyc' = [cyc EXCEPT !.phase = "rejected", !.calls = Append(@, "restore")]
    /\ sinceReset' = [sinceReset EXCEPT ![chains[cur].schedule.moves] = @ + 1]
    /\ UNCHANGED <<nextModel, inMoves, inMonitors, treeVars, pc, cur, caller, numTries,
                   outcome, errMsg, errTries, attempts, failures, evalLog, redrawLog,
                   paths, tmplMutated,
                   obsVars, advances,
                   rng>>

\* Move::perform returns; the loop of nextCycle goes on
MoveDone ==
    /\ pc = "cycle"
    /\ cyc.phase \in {"accepted", "rejected"}
    /\ cyc' = [cyc EXCEPT !.phase = "idle", !.i = @ + 1, !.move = 0, !.u = 0,
                          !.calls = <<>>, !.performed = @ + 1, !.lHeat = 0, !.pHeat = 0,
                          !.pre = Blank, !.accept = FALSE]
    /\ UNCHANGED <<heap, nextModel, chains, inMoves, inMonitors, treeVars, pc, cur, caller,
                   numTries, outcome, errMsg, errTries, attempts, failures, evalLog,
                   redrawLog, paths, tmplMutated,
                   obsVars, sinceReset, advances,
                   rng>>

\* (mutant) the generation counter advances whatever advanceCycle is
CycleEndAlwaysAdvances ==
    /\ pc = "cycle"
    /\ cyc.phase = "idle"
    /\ cyc.i = cyc.proposals
    /\ chains' = [chains EXCEPT ![cur].generation = @ + 1]
    /\ advances' = [advances EXCEPT ![cur] = IF cyc.advanceCycle THEN @ + 1 ELSE @]
    /\ cyc' = NoCycle
    /\ pc' = "idle"
    /\ outcome' = "cycle_returned"
    /\ UNCHANGED <<heap, nextModel, inMoves, inMonitors, treeVars, cur, caller, numTries,
                   errMsg, errTries, attempts, failures, evalLog, redrawLog, paths,
                   tmplMutated, obsVars, sinceReset,
                   rng>>

\* the end of nextCycle: "if (advanceCycle) generation++"
CycleEnd ==
    /\ pc = "cycle"
    /\ cyc.phase = "idle"
    /\ cyc.i = cyc.proposals
    /\ chains' = [chains EXCEPT ![cur].generation =
                     IF cyc.advanceCycle THEN @ + 1 ELSE @]
    /\ advances' = [advances EXCEPT ![cur] = IF cyc.advanceCycle THEN @ + 1 ELSE @]
    /\ cyc' = NoCycle
    /\ pc' = "idle"
    /\ outcome' = "cycle_returned"
    /\ UNCHANGED <<heap, nextModel, inMoves, inMonitors, treeVars, cur, caller, numTries,
                   errMsg, errTries, attempts, failures, evalLog, redrawLog, paths,
                   tmplMutated,
                   obsVars, sinceReset,
                   rng>>

(***************************************************************************)
(* The other public methods of Mcmc that the driver of a run calls between *)
(* two cycles.                                                             *)
(***************************************************************************)
\* the locals and the record of initializeSampler and of the exceptions
initVars == <<numTries, errMsg, errTries, attempts, failures, evalLog, redrawLog>>

\* Mcmc::setScheduleType
setScheduleType(c, st) ==
    /\ pc = "idle"
    /\ chains[c].alive
    /\ chains' = [chains EXCEPT ![c].scheduleType = st]
    /\ UNCHANGED <<heap, nextModel, inMoves, inMonitors, treeVars, pc, cur, caller, outcome,
                   initVars, cycVars, obsVars, sinceReset, advances,
                   rng>>

\* Mcmc::getStrategyDescription: the number of moves, and for "random" and
\* "sequential" what the schedule reports; "single" asks the schedule nothing
getStrategyDescription(c) ==
    /\ pc = "idle"
    /\ chains[c].alive
    /\ chains[c].schedule # NoSchedule
    /\ description' =
          IF chains[c].scheduleType \in {"random", "sequential"}
          THEN [scheduleType |-> chains[c].scheduleType,
                moves |-> Len(chains[c].moves),
                perIteration |-> getNumberMovesPerIteration(chains[c].schedule,
                                                            ScheduledMoves(c))]
          ELSE IF chains[c].scheduleType = "single"
          THEN [scheduleType |-> "single", moves |-> Len(chains[c].moves),
                perIteration |-> 0]
          ELSE NoDescription
    /\ cur' = c
    /\ outcome' = "described"
    /\ UNCHANGED <<heap, nextModel, chains, inMoves, inMonitors, treeVars, pc, caller,
                   initVars, cycVars, monitorLog, tuned, sinceReset, advances,
                   returned, started, rng>>

\* Mcmc::monitor(g): monitors[i].monitor( g ) for every monitor
monitor(c, g) ==
    /\ pc = "idle"
    /\ chains[c].alive
    /\ monitorLog' = [chain |-> c, g |-> g, chainActive |-> chains[c].chainActive,
                      triggered |-> Len(chains[c].monitors)]
    /\ cur' = c
    /\ outcome' = "monitored"
    /\ UNCHANGED <<heap, nextModel, chains, inMoves, inMonitors, treeVars, pc, caller,
                   initVars, cycVars, description, tuned, sinceReset, advances,
                   returned, started, rng>>

\* Move::resetCounters
resetCounters(mv) == [mv EXCEPT !.tried = 0, !.accepted = 0]

\* (mutant) the loop of reset() stops one Move early
resetSkipsLast(c) ==
    /\ pc = "idle"
    /\ chains[c].alive
    /\ chains' = [chains EXCEPT ![c].moves =
                     [i \in 1 .. Len(@) |-> IF i < Len(@) THEN resetCounters(@[i]) ELSE @[i]]]
    /\ sinceReset' = [sinceReset EXCEPT ![c] = 0]
    /\ cur' = c
    /\ outcome' = "reset_returned"
    /\ UNCHANGED <<heap, nextModel, inMoves, inMonitors, treeVars, pc, caller,
                   initVars, cycVars, obsVars, advances,
                   rng>>

\* (mutant) reset() that starts the count of generations again, too
resetAlsoGeneration(c) ==
    /\ pc = "idle"
    /\ chains[c].alive
    /\ chains' = [chains EXCEPT ![c].moves = [i \in 1 .. Len(@) |-> resetCounters(@[i])],
                                ![c].generation = 0]
    /\ sinceReset' = [sinceReset EXCEPT ![c] = 0]
    /\ cur' = c
    /\ outcome' = "reset_returned"
    /\ UNCHANGED <<heap, nextModel, inMoves, inMonitors, treeVars, pc, caller,
                   initVars, cycVars, obsVars, advances,
                   rng>>

\* Mcmc::reset: resetCounters() on every Move (the sum of the weights it
\* adds up is dropped)
reset(c) ==
    /\ pc = "idle"
    /\ chains[c].alive
    /\ chains' = [chains EXCEPT ![c].moves = [i \in 1 .. Len(@) |-> resetCounters(@[i])]]
    /\ sinceReset' = [sinceReset EXCEPT ![c] = 0]
    /\ cur' = c
    /\ outcome' = "reset_returned"
    /\ UNCHANGED <<heap, nextModel, inMoves, inMonitors, treeVars, pc, caller,
                   initVars, cycVars, obsVars, advances,
                   rng>>

\* the heats are doubles; the model takes them from 0, 1, 2
Heats == {0, 1, 2}

\* (mutant) setLikelihoodHeat that writes the other heat
setLikelihoodHeatWritesPosterior(c, h) ==
    /\ pc = "idle"
    /\ chains[c].alive
    /\ chains' = [chains EXCEPT ![c].chainPosteriorHeat = h]
    /\ UNCHANGED <<heap, nextModel, inMoves, inMonitors, treeVars, pc, cur, caller, outcome,
                   initVars, cycVars, obsVars, sinceReset, advances, rng>>

\* Mcmc::setChainLikelihoodHeat
setChainLikelihoodHeat(c, h) ==
    /\ pc = "idle"
    /\ chains[c].alive
    /\ chains' = [chains EXCEPT ![c].chainLikelihoodHeat = h]
    /\ UNCHANGED <<heap, nextModel, inMoves, inMonitors, treeVars, pc, cur, caller, outcome,
                   initVars, cycVars, obsVars, sinceReset, advances, rng>>

\* Mcmc::setLikelihoodHeat
setLikelihoodHeat(c, h) ==
    /\ pc = "idle"
    /\ chains[c].alive
    /\ chains' = [chains EXCEPT ![c].chainLikelihoodHeat = h]
    /\ UNCHANGED <<heap, nextModel, inMoves, inMonitors, treeVars, pc, cur, caller, outcome,
                   initVars, cycVars, obsVars, sinceReset, advances, rng>>

\* Mcmc::setChainPosteriorHeat
setChainPosteriorHeat(c, h) ==
    /\ pc = "idle"
    /\ chains[c].alive
    /\ chains' = [chains EXCEPT ![c].chainPosteriorHeat = h]
    /\ UNCHANGED <<heap, nextModel, inMoves, inMonitors, treeVars, pc, cur, caller, outcome,
                   initVars, cycVars, obsVars, sinceReset, advances, rng>>

\* Mcmc::setChainIndex
setChainIndex(c, x) ==
    /\ pc = "idle"
    /\ chains[c].alive
    /\ chains' = [chains EXCEPT ![c].chainIdx = x]
    /\ UNCHANGED <<heap, nextModel, inMoves, inMonitors, treeVars, pc, cur, caller, outcome,
                   initVars, cycVars, obsVars, sinceReset, advances, rng>>

\* the loop of getModelLnProbability: getLnProbability() on every node of
\* the model in the model's order, nothing is touched; pp is the sum
RECURSIVE SumModel(_, _, _)
SumModel(ns, i, pp) ==
    IF i > Len(dagNodes) THEN [ns |-> ns, pp |-> pp]
    ELSE LET ns1 == Evaluate(ns, dagNodes[i])
             pr == ns1[dagNodes[i]].lnProb
         IN SumModel(ns1, i + 1,
                     IF isAComputableNumber(pr) /\ isAComputableNumber(pp)
                     THEN Num(pp.v + pr.v) ELSE NaN)

\* (mutant) the sum is heated by the posterior heat of the chain
getModelLnProbabilityHeated(c) ==
    /\ pc = "idle"
    /\ chains[c].alive
    /\ \E r \in {SumModel(heap[chains[c].model], 1, Num(0))} :
         /\ heap' = [heap EXCEPT ![chains[c].model] = r.ns]
         /\ returned' = [chain |-> c,
                         pp |-> IF isAComputableNumber(r.pp)
                                THEN Num(chains[c].chainPosteriorHeat * r.pp.v) ELSE NaN]
    /\ cur' = c
    /\ outcome' = "lnprob_returned"
    /\ UNCHANGED <<nextModel, chains, inMoves, inMonitors, treeVars, pc, caller,
                   initVars, cycVars, description, monitorLog, tuned, started,
                   sinceReset, advances, rng>>

\* Mcmc::getModelLnProbability
getModelLnProbability(c) ==
    /\ pc = "idle"
    /\ chains[c].alive
    /\ \E r \in {SumModel(heap[chains[c].model], 1, Num(0))} :
         /\ heap' = [heap EXCEPT ![chains[c].model] = r.ns]
         /\ returned' = [chain |-> c, pp |-> r.pp]
    /\ cur' = c
    /\ outcome' = "lnprob_returned"
    /\ UNCHANGED <<nextModel, chains, inMoves, inMonitors, treeVars, pc, caller,
                   initVars, cycVars, description, monitorLog, tuned, started,
                   sinceReset, advances, rng>>

\* (mutant) startMonitors that resets the monitors of an active chain only
startMonitorsResetsIfActive(c, numCycles) ==
    /\ pc = "idle"
    /\ chains[c].alive
    /\ started' = [chain |-> c, numCycles |-> numCycles,
                   chainActive |-> chains[c].chainActive,
                   calls |-> [i \in 1 .. Len(chains[c].monitors) |->
                                 IF chains[c].chainActive
                                 THEN <<"reset", "openStream", "printHeader">>
                                 ELSE <<>>]]
    /\ cur' = c
    /\ outcome' = "monitors_started"
    /\ UNCHANGED <<heap, nextModel, chains, inMoves, inMonitors, treeVars, pc, caller,
                   initVars, cycVars, description, monitorLog, tuned, returned,
                   sinceReset, advances, rng>>

\* Mcmc::startMonitors(numCycles): for every monitor reset( numCycles ), and
\* if (chainActive) openStream() and printHeader()
startMonitors(c, numCycles) ==
    /\ pc = "idle"
    /\ chains[c].alive
    /\ started' = [chain |-> c, numCycles |-> numCycles,
                   chainActive |-> chains[c].chainActive,
                   calls |-> [i \in 1 .. Len(chains[c].monitors) |->
                                 IF chains[c].chainActive
                                 THEN <<"reset", "openStream", "printHeader">>
                                 ELSE <<"reset">>]]
    /\ cur' = c
    /\ outcome' = "monitors_started"
    /\ UNCHANGED <<heap, nextModel, chains, inMoves, inMonitors, treeVars, pc, caller,
                   initVars, cycVars, description, monitorLog, tuned, returned,
                   sinceReset, advances, rng>>

(***************************************************************************)
(* Tuning.  Mcmc::tune has every Move tune itself (autoTune), and the Move *)
(* hands its acceptance rate, accepted / tried, to Proposal::tune.  Rates  *)
(* and tuning parameters are rationals <<numerator, denominator>>, the     *)
(* arithmetic is exact.                                                    *)
(***************************************************************************)
RECURSIVE GCD(_, _)
GCD(a, b) == IF b = 0 THEN a ELSE GCD(b, a % b)

Rat(n, d) == <<n \div GCD(n, d), d \div GCD(n, d)>>

Less(p, q) == p[1] * q[2] < q[1] * p[2]

\* (mutant) the comparison the other way round
tuneInverted(lambda, rate) ==
    IF 100 * rate[1] < 44 * rate[2]
    THEN Rat(lambda[1] * (100 * rate[1] + 12 * rate[2]), lambda[2] * 56 * rate[2])
    ELSE Rat(lambda[1] * 44 * rate[2], lambda[2] * (88 * rate[2] - 100 * rate[1]))

\* VectorFixedSingleElementSlideProposal::tune:
\*   rate > 0.44:  lambda *= 1 + (rate - 0.44) / 0.56, that is (100 r + 12) / 56
\*   else:         lambda /= 2 - rate / 0.44,          that is (88 - 100 r) / 44
tune(lambda, rate) ==
    IF 100 * rate[1] > 44 * rate[2]
    THEN Rat(lambda[1] * (100 * rate[1] + 12 * rate[2]), lambda[2] * 56 * rate[2])
    ELSE Rat(lambda[1] * 44 * rate[2], lambda[2] * (88 * rate[2] - 100 * rate[1]))

\* the tuning parameters a proposal is constructed with
Lambdas == {<<1, 2>>, <<1, 1>>, <<2, 1>>}

\* the counts of tried proposals the rates are taken over: 25 gives the
\* rate 11/25 = 0.44
TriedCounts == {1, 25}

\* the acceptance rates accepted / tried
Rates == {r \in (0 .. 25) \X TriedCounts : r[1] <= r[2]}

\* VectorFixedSingleElementSlideProposal(n, l): the proposal is constructed
\* with tuning parameter l
NewProposal(l) ==
    /\ pc = "idle"
    /\ tuned = NoTune
    /\ tuned' = [NoTune EXCEPT !.lambda = l, !.before = l]
    /\ UNCHANGED <<heap, nextModel, chains, inMoves, inMonitors, treeVars, pc, cur, caller, outcome,
                   initVars, cycVars, description, monitorLog, sinceReset, advances,
                   returned, started, rng>>

\* Mcmc::tune on a chain whose Move has the acceptance rate given
Tune(rate) ==
    /\ pc = "idle"
    /\ tuned # NoTune
    /\ tuned.tunes < MaxTunes
    /\ tuned' = [before |-> tuned.lambda, rate |-> rate,
                 lambda |-> tune(tuned.lambda, rate), tunes |-> tuned.tunes + 1]
    /\ UNCHANGED <<heap, nextModel, chains, inMoves, inMonitors, treeVars, pc, cur, caller, outcome,
                   initVars, cycVars, description, monitorLog, sinceReset, advances,
                   returned, started, rng>>

(***************************************************************************)
(* The cross-check of nextCycle under DEBUG_MCMC: the sum of the node      *)
(* log-probabilities as they are cached ("with shortcuts") and the sum     *)
(* after touching every node.                                              *)
(***************************************************************************)
RECURSIVE SumLnProb(_, _, _)
SumLnProb(ns, i, lnProb) ==
    IF i > Len(dagNodes) THEN lnProb
    ELSE LET ns1 == Evaluate(ns, dagNodes[i])
             pr == ns1[dagNodes[i]].lnProb
         IN SumLnProb(ns1, i + 1,
                      IF isAComputableNumber(pr) /\ isAComputableNumber(lnProb)
                      THEN Num(lnProb.v + pr.v) ELSE NaN)

\* "double lnProb": the loop over dagNodes without touching anything
ShortcutLnProb(ns) == SumLnProb(ns, 1, Num(0))

\* "double touchedLnProb": touch() on every node, then the same loop
TouchedLnProb(ns) == SumLnProb(TouchAll(ns, 1), 1, Num(0))

(***************************************************************************)
(* The owner of the template Model changes a node value of it, between two *)
(* calls into the chain.                                                   *)
(***************************************************************************)
MutateTemplate(n, v) ==
    /\ pc = "idle"
    /\ heap[Template][n].value # v
    /\ heap' = [heap EXCEPT ![Template][n].value = v]
    /\ tmplMutated' = TRUE
    /\ UNCHANGED <<nextModel, chains, inMoves, inMonitors, treeVars, pc, cur, caller, numTries,
                   outcome, errMsg, errTries, attempts, failures, evalLog, redrawLog,
                   paths, cyc,
                   obsVars, sinceReset, advances,
                   rng>>

\* no proposal object, no TreeSummary object, no call yet
NoProposal == [alive |-> FALSE]
NoSummary == [alive |-> FALSE]
NoCall == [call |-> "none", b |-> 0, thrown |-> "", recomputed |-> FALSE, result |-> ""]

(***************************************************************************)
(* Initial states.  The template Model is the caller's: its nodes hold     *)
(* values, nothing has been evaluated yet.                                 *)
(***************************************************************************)
InitState(tmpl, mvs, mons, record) ==
    /\ heap = [m \in ModelIds |-> IF m = Template THEN tmpl ELSE Blank]
    /\ nextModel = 1
    /\ chains = [c \in ChainIds |-> NoChain]
    /\ inMoves = mvs
    /\ inMonitors = mons
    /\ pc = "idle"
    /\ cur = 1
    /\ caller = "ctor"
    /\ numTries = 0
    /\ outcome = "none"
    /\ errMsg = ""
    /\ errTries = 0
    /\ attempts = 0
    /\ failures = 0
    /\ evalLog = <<>>
    /\ redrawLog = <<>>
    /\ paths = [i \in PathIds |->
                  PathProposal(Ref(Template, "z"), Ref(Template, "x"), Ref(Template, "d"))]
    /\ cyc = NoCycle
    /\ tmplMutated = FALSE
    /\ description = NoDescription
    /\ monitorLog = NoMonitorCall
    /\ sinceReset = [c \in ChainIds |-> 0]
    /\ advances = [c \in ChainIds |-> 0]
    /\ tuned = NoTune
    /\ returned = NoReturn
    /\ started = NoStart
    /\ rng = Rng(record)
    /\ clado = NoProposal
    /\ treeSummary = NoSummary
    /\ treeOut = NoCall

InitWith(tmpl, mvs, mons) == InitState(tmpl, mvs, mons, FALSE)

(***************************************************************************)
(* SpecInit: one chain is constructed from the template and its sampler    *)
(* is initialised, again and again, active or inactive.                    *)
(***************************************************************************)
InitTemplates ==
    {ModelOf(Ones, <<1>>, <<0>>), ModelOf(Neg, <<1>>, <<0>>), ModelOf(Ones, Hopeless, <<0>>)}

GoodMoves == <<SlideMove(Ref(Template, "x"), 4, 1, WeightUnit)>>
GoodMonitors == <<Monitor(<<Ref(Template, "x"), Ref(Template, "z")>>)>>

InitSampler ==
    \E tmpl \in InitTemplates : InitWith(tmpl, GoodMoves, GoodMonitors)

NextInit ==
    \/ Construct(1)
    \/ InitBegin
    \/ InitAttempt
    \/ InitFinish
    \/ CallInitializeSampler(1)
    \/ \E tf \in BOOLEAN : setChainActive(1, tf)

SpecInit == InitSampler /\ [][NextInit]_vars

(***************************************************************************)
(* SpecCycle: one chain is constructed from the template with one Move,    *)
(* two Moves or none, and runs cycles; the owner of the template changes   *)
(* the template in between.                                                *)
(***************************************************************************)
TwoMoves == <<SlideMove(Ref(Template, "x"), 4, 1, WeightUnit), SlideMove(Ref(Template, "z"), 4, 1, WeightUnit)>>

InitCycle ==
    \E tmpl \in {ModelOf(Ones, <<1>>, <<0>>), ModelOf(Neg, <<1>>, <<0>>)} :
    \E mvs \in {GoodMoves, TwoMoves, <<>>} :
        InitWith(tmpl, mvs, GoodMonitors)

NextCycle ==
    \/ Construct(1)
    \/ InitBegin
    \/ InitAttempt
    \/ InitFinish
    \/ \E advanceCycle \in BOOLEAN : CycleBegin(1, advanceCycle)
    \/ MovePrepare
    \/ MoveApply
    \/ MoveDecide
    \/ MoveAccept
    \/ MoveUndo
    \/ MoveRestore
    \/ MoveDone
    \/ CycleEnd
    \/ \E v \in DrawSet("x") : MutateTemplate("x", v)

SpecCycle == InitCycle /\ [][NextCycle]_vars

(***************************************************************************)
(* SpecChains: chains are constructed from the template, copy-constructed  *)
(* and assigned from one another.  The Move and Monitor lists handed to    *)
(* the constructor are good ones, or hold a node that is in no Model       *)
(* ("w"), or a node whose name is empty.                                   *)
(***************************************************************************)
StrayMoves == <<SlideMove(Ref(Template, "x"), 4, 1, WeightUnit), SlideMove(Ref(Outside, "w"), 4, 1, WeightUnit)>>
NamelessMoves == <<SlideMove(Ref(Outside, ""), 4, 1, WeightUnit)>>
CladoMoves ==
    <<CladoMove(Ref(Template, "z"), Ref(Template, "x"), Ref(Template, "d"), 4, WeightUnit)>>
StrayMonitors == <<Monitor(<<Ref(Template, "x")>>), Monitor(<<Ref(Template, "z"), Ref(Outside, "w")>>)>>
NamelessMonitors == <<Monitor(<<Ref(Outside, ""), Ref(Outside, "w")>>)>>

InitChains ==
    \E tmpl \in {ModelOf(Ones, <<1>>, <<0>>), ModelOf(Ones, <<2>>, <<0>>)} :
    \E mvs \in {GoodMoves, TwoMoves, StrayMoves, NamelessMoves, CladoMoves} :
    \E mons \in {GoodMonitors, StrayMonitors, NamelessMonitors} :
        InitWith(tmpl, mvs, mons)

NextChains ==
    \/ \E c \in ChainIds : Construct(c)
    \/ \E c, src \in ChainIds : CopyConstruct(c, src)
    \/ \E c, src \in ChainIds : Assign(c, src)
    \/ InitBegin
    \/ InitAttempt
    \/ InitFinish

SpecChains == InitChains /\ [][NextChains]_vars

(***************************************************************************)
(* SpecSchedule: one chain over Move lists with given update weights       *)
(* (in halves: 2, 3, 5; four Moves of weight 1; 1.5; 0.5; lists with a     *)
(* weight 0 or below), under each of the three schedule types: before the  *)
(* run the type is set, the sampler initialised again and the strategy     *)
(* described; the cycles run on the schedule that was described.           *)
(***************************************************************************)
WeightedMoves(ws) ==
    [i \in 1 .. Len(ws) |->
        SlideMove(Ref(Template, IF i % 2 = 1 THEN "x" ELSE "z"), 4, 1, ws[i])]

WeightLists ==
    {<<4, 6, 10>>, <<2, 2, 2, 2>>, <<3>>, <<1>>, <<2, 0>>, <<4, 0 - 2>>, <<0>>}

ScheduleTypes == {"random", "sequential", "single"}

\* the run starts: the schedule is of the type set and was described
RunStarts ==
    /\ chains[1].schedule.type = chains[1].scheduleType
    /\ description.scheduleType = chains[1].scheduleType

\* the run has not started
BeforeRun == sinceReset[1] = 0 /\ advances[1] = 0

InitSchedule ==
    \E ws \in WeightLists : InitWith(ModelOf(Ones, <<1>>, <<0>>), WeightedMoves(ws), GoodMonitors)

NextSchedule ==
    \/ Construct(1)
    \/ InitBegin
    \/ InitAttempt
    \/ InitFinish
    \/ BeforeRun /\ \E st \in ScheduleTypes : setScheduleType(1, st)
    \/ BeforeRun /\ CallInitializeSampler(1)
    \/ BeforeRun /\ getStrategyDescription(1)
    \/ RunStarts /\ \E advanceCycle \in BOOLEAN : CycleBegin(1, advanceCycle)
    \/ MovePrepare
    \/ MoveApply
    \/ MoveDecide
    \/ MoveAccept
    \/ MoveUndo
    \/ MoveRestore
    \/ MoveDone
    \/ CycleEnd

SpecSchedule == InitSchedule /\ [][NextSchedule]_vars

(***************************************************************************)
(* SpecDriver: one chain with one Move or two, driven as a run drives it:  *)
(* cycles, advancing or not, and between two cycles reset().               *)
(***************************************************************************)
InitDriver ==
    \E mvs \in {GoodMoves, TwoMoves} : InitWith(ModelOf(Ones, <<1>>, <<0>>), mvs, GoodMonitors)

NextDriver ==
    \/ Construct(1)
    \/ InitBegin
    \/ InitAttempt
    \/ InitFinish
    \/ \E advanceCycle \in BOOLEAN : CycleBegin(1, advanceCycle)
    \/ MovePrepare
    \/ MoveApply
    \/ MoveDecide
    \/ MoveAccept
    \/ MoveUndo
    \/ MoveRestore
    \/ MoveDone
    \/ CycleEnd
    \/ reset(1)

SpecDriver == InitDriver /\ [][NextDriver]_vars

(***************************************************************************)
(* SpecMonitor: one chain with one Move and one monitor; between two       *)
(* cycles the driver calls monitor() with the generation reached,          *)
(* setChainActive() and startMonitors().                                   *)
(***************************************************************************)
\* the numbers of cycles startMonitors is told
CycleCounts == {1, 2}

InitMonitor == InitWith(ModelOf(Ones, <<1>>, <<0>>), GoodMoves, GoodMonitors)

NextMonitor ==
    \/ Construct(1)
    \/ InitBegin
    \/ InitAttempt
    \/ InitFinish
    \/ \E advanceCycle \in BOOLEAN : CycleBegin(1, advanceCycle)
    \/ MovePrepare
    \/ MoveApply
    \/ MoveDecide
    \/ MoveAccept
    \/ MoveUndo
    \/ MoveRestore
    \/ MoveDone
    \/ CycleEnd
    \/ monitor(1, chains[1].generation)
    \/ \E tf \in BOOLEAN : setChainActive(1, tf)
    \/ \E numCycles \in CycleCounts : startMonitors(1, numCycles)

SpecMonitor == InitMonitor /\ [][NextMonitor]_vars

(***************************************************************************)
(* SpecTune: a proposal is constructed with a tuning parameter and tuned   *)
(* again and again with acceptance rates between 0 and 1.                  *)
(***************************************************************************)
InitTune == InitWith(ModelOf(Ones, <<1>>, <<0>>), GoodMoves, GoodMonitors)

NextTune ==
    \/ \E l \in Lambdas : NewProposal(l)
    \/ \E rate \in Rates : Tune(rate)

SpecTune == InitTune /\ [][NextTune]_vars

(***************************************************************************)
(* SpecLnProb: one chain, built from a template inside or outside the      *)
(* support, is initialised, heated and run; between two calls the joint    *)
(* log-probability of its model is asked for.                              *)
(***************************************************************************)
InitLnProb ==
    \E tmpl \in {ModelOf(Ones, <<1>>, <<0>>), ModelOf(Neg, <<1>>, <<0>>)} :
        InitWith(tmpl, GoodMoves, GoodMonitors)

NextLnProb ==
    \/ Construct(1)
    \/ InitBegin
    \/ InitAttempt
    \/ InitFinish
    \/ \E advanceCycle \in BOOLEAN : CycleBegin(1, advanceCycle)
    \/ MovePrepare
    \/ MoveApply
    \/ MoveDecide
    \/ MoveAccept
    \/ MoveUndo
    \/ MoveRestore
    \/ MoveDone
    \/ CycleEnd
    \/ \E h \in Heats : setChainLikelihoodHeat(1, h)
    \/ \E h \in Heats : setLikelihoodHeat(1, h)
    \/ \E h \in Heats : setChainPosteriorHeat(1, h)
    \/ getModelLnProbability(1)

SpecLnProb == InitLnProb /\ [][NextLnProb]_vars

(***************************************************************************)
(* SpecAssign: chains are constructed from the template; the members of    *)
(* the first are set away from what the constructor gives (activity flag,  *)
(* heats, chain index, schedule type) and chains are assigned from one     *)
(* another.                                                                *)
(***************************************************************************)
InitAssign == InitWith(ModelOf(Ones, <<1>>, <<0>>), GoodMoves, GoodMonitors)

NextAssign ==
    \/ \E c \in ChainIds : Construct(c)
    \/ InitBegin
    \/ InitAttempt
    \/ InitFinish
    \/ setChainActive(1, FALSE)
    \/ setChainLikelihoodHeat(1, 2)
    \/ setChainPosteriorHeat(1, 0)
    \/ setChainIndex(1, 1)
    \/ setScheduleType(1, "single")
    \/ \E c, src \in ChainIds : Assign(c, src)

SpecAssign == InitAssign /\ [][NextAssign]_vars

(***************************************************************************)
(* SpecReplay: two chains are constructed from the same template and run   *)
(* whole cycles one after the other; what each takes from the generator    *)
(* is recorded.  The first chain runs with any numbers; the second is      *)
(* constructed afterwards and is given the numbers the first one got, in   *)
(* the same order.                                                         *)
(***************************************************************************)
IsPrefix(s, t) == Len(s) <= Len(t) /\ \A i \in 1 .. Len(s) : s[i] = t[i]

\* the second chain is given what the first one got
Replayed == IsPrefix(rng.taken[2], rng.taken[1])

InitReplay == InitState(ModelOf(Ones, <<1>>, <<0>>), GoodMoves, GoodMonitors, TRUE)

NextReplay ==
    \/ \E c \in {1, 2} : Construct(c)
    \/ InitBegin
    \/ InitAttempt
    \/ InitFinish
    \/ CycleBegin(1, TRUE) /\ ~chains[2].alive
    \/ CycleBegin(2, TRUE) /\ Replayed'
    \/ MovePrepare /\ Replayed'
    \/ MoveApply /\ Replayed'
    \/ MoveDecide /\ Replayed'
    \/ MoveAccept
    \/ MoveUndo
    \/ MoveRestore
    \/ MoveDone
    \/ CycleEnd

SpecReplay == InitReplay /\ [][NextReplay]_vars

(***************************************************************************)
(* SpecCopy: a chain is constructed from a template inside or outside the  *)
(* support, is flagged active or inactive, and a second chain is           *)
(* copy-constructed from it.                                               *)
(***************************************************************************)
InitCopy ==
    \E tmpl \in {ModelOf(Ones, <<1>>, <<1>>), ModelOf(Neg, <<1>>, <<0>>)} :
        InitWith(tmpl, GoodMoves, GoodMonitors)

NextCopy ==
    \/ Construct(1)
    \/ CopyConstruct(2, 1)
    \/ InitBegin
    \/ InitAttempt
    \/ InitFinish
    \/ \E tf \in BOOLEAN : setChainActive(1, tf)

SpecCopy == InitCopy /\ [][NextCopy]_vars

(***************************************************************************)
(* SpecRestart: a chain runs cycles and is then initialised again, copied  *)
(* or assigned to a second chain.  All chains are active and the template  *)
(* is inside the support, so every initialisation succeeds.                *)
(***************************************************************************)
InitRestart == InitWith(ModelOf(Ones, <<1>>, <<0>>), GoodMoves, GoodMonitors)

NextRestart ==
    \/ \E c \in {1, 2} : Construct(c)
    \/ CopyConstruct(2, 1)
    \/ Assign(2, 1)
    \/ CallInitializeSampler(1)
    \/ InitBegin
    \/ InitAttempt
    \/ InitFinish
    \/ setScheduleType(1, "sequential")
    \/ CycleBegin(1, TRUE) /\ ~chains[2].alive
    \/ MovePrepare
    \/ MoveApply
    \/ MoveDecide
    \/ MoveAccept
    \/ MoveUndo
    \/ MoveRestore
    \/ MoveDone
    \/ CycleEnd

SpecRestart == InitRestart /\ [][NextRestart]_vars

(***************************************************************************)
(* SpecFatal: the first chain runs one cycle, is flagged inactive and is   *)
(* then initialised again or assigned from the second chain; being         *)
(* inactive, its initialisation draws new values and can use up its tries. *)
(* Nothing is constructed, assigned or initialised after a fatal error.    *)
(***************************************************************************)
InitFatal == InitWith(ModelOf(Ones, <<1>>, <<0>>), GoodMoves, GoodMonitors)

NextFatal ==
    \/ \E c \in {1, 2} : Construct(c) /\ outcome # "init_thrown"
    \/ Assign(1, 2) /\ outcome # "init_thrown" /\ ~chains[1].chainActive
    \/ CallInitializeSampler(1) /\ outcome # "init_thrown" /\ ~chains[1].chainActive
    \/ InitBegin
    \/ InitAttempt
    \/ InitFinish
    \/ setChainActive(1, FALSE) /\ chains[1].generation > 0
    \/ CycleBegin(1, TRUE) /\ chains[1].generation = 0 /\ chains[1].chainActive
    \/ MovePrepare
    \/ MoveApply /\ cyc'.u = 3
    \/ MoveDecide
    \/ MoveAccept
    \/ MoveUndo
    \/ MoveRestore
    \/ MoveDone
    \/ CycleEnd

SpecFatal == InitFatal /\ [][NextFatal]_vars

(***************************************************************************)
(* SpecVariant: the schedule type string of a chain is set to one of the   *)
(* three known strings or to another one, at any time between two calls,   *)
(* and the sampler is initialised again at any time.                       *)
(***************************************************************************)
TypeStrings == ScheduleTypes \cup {"weighted"}

InitVariant == InitWith(ModelOf(Ones, <<1>>, <<0>>), GoodMoves, GoodMonitors)

NextVariant ==
    \/ Construct(1)
    \/ InitBegin
    \/ InitAttempt
    \/ InitFinish
    \/ \E st \in TypeStrings : setScheduleType(1, st)
    \/ CallInitializeSampler(1)
    \/ CycleBegin(1, TRUE)
    \/ MovePrepare
    \/ MoveApply
    \/ MoveDecide
    \/ MoveAccept
    \/ MoveUndo
    \/ MoveRestore
    \/ MoveDone
    \/ CycleEnd

SpecVariant == InitVariant /\ [][NextVariant]_vars

(***************************************************************************)
(* NodeCladogenesisRejectionSampleProposal::prepareProposal on a proposal  *)
(* object of its own.  The tree of tau has numTips tips and                *)
(* 2 * numTips - 1 nodes: the nodes 1 .. numTips are the tips, each other  *)
(* node has two children.  NullNd is the NULL TopologyNode pointer.        *)
(***************************************************************************)
MaxTips == 3

NullNd == 0

NumberOfNodes(numTips) == 2 * numTips - 1

TreeNodes(numTips) == 1 .. NumberOfNodes(numTips)

\* TopologyNode::isTip
isTip(numTips, nd) == nd <= numTips

InternalNodes(numTips) == {nd \in TreeNodes(numTips) : ~isTip(numTips, nd)}

\* TopologyNode::getChild(i) of an internal node, i = 0 or 1
getChild(numTips, nd, i) ==
    IF i = 1 THEN nd - numTips + 1
    ELSE IF nd = numTips + 1 THEN 1 ELSE nd - 1

\* uniform01() in eighths
Uniform01Fine == 0 .. 7

\* size_t idx = GLOBAL_RNG->uniform01() * nds.size(); nds[idx], the first
\* node being node 1
DrawnNode(numTips, u) == (u * NumberOfNodes(numTips)) \div 8 + 1

\* the constructor with the tree of tau and the node nd (NULL: none fixed)
CladoConstruct(numTips, nd) ==
    /\ clado.alive => clado.phase = "idle"
    /\ clado' = [alive |-> TRUE, numTips |-> numTips, node |-> nd,
                 fixNodeIndex |-> (nd # NullNd), sampleNodeIndex |-> TRUE,
                 phase |-> "idle",
                 storedBudNode |-> NullNd, storedTrunkNode |-> NullNd,
                 proposedBudNode |-> NullNd, proposedTrunkNode |-> NullNd,
                 swapBudTrunk |-> FALSE,
                 pathNodes |-> <<nd, nd, nd>>,
                 drawn |-> 0]
    /\ UNCHANGED <<mcmcVars, treeSummary, treeOut>>

\* assignNode(nd)
assignNode(nd) ==
    /\ clado.alive
    /\ clado.phase = "idle"
    /\ nd \in InternalNodes(clado.numTips)
    /\ clado' = [clado EXCEPT !.node = nd, !.sampleNodeIndex = FALSE]
    /\ UNCHANGED <<mcmcVars, treeSummary, treeOut>>

\* prepareProposal up to the loop: node = NULL when a node is to be sampled
PrepareBegin ==
    /\ clado.alive
    /\ clado.phase = "idle"
    /\ clado' = IF clado.sampleNodeIndex /\ ~clado.fixNodeIndex
                THEN [clado EXCEPT !.node = NullNd, !.phase = "loop"]
                ELSE [clado EXCEPT !.phase = "chosen"]
    /\ UNCHANGED <<mcmcVars, treeSummary, treeOut>>

\* one round of while (node == NULL || node->isTip()); drawn is the number
\* uniform01() gave
PrepareDraw(u) ==
    /\ clado.alive
    /\ clado.phase = "loop"
    /\ clado.node = NullNd \/ isTip(clado.numTips, clado.node)
    /\ clado' = [clado EXCEPT !.node = DrawnNode(clado.numTips, u), !.drawn = u]
    /\ UNCHANGED <<mcmcVars, treeSummary, treeOut>>

\* the loop is left, or was not entered: the bud and trunk nodes are taken
\* from the budding states (budFirst: the first child is the bud), swapped
\* or not, and the three path proposals get the node and its children
PrepareRest(budFirst, swap) ==
    /\ clado.alive
    /\ \/ clado.phase = "chosen"
       \/ /\ clado.phase = "loop"
          /\ ~(clado.node = NullNd \/ isTip(clado.numTips, clado.node))
    /\ LET nd == clado.node
           first == getChild(clado.numTips, nd, 0)
           second == getChild(clado.numTips, nd, 1)
           bud == IF budFirst THEN first ELSE second
           trunk == IF budFirst THEN second ELSE first
       IN clado' = [clado EXCEPT !.phase = "idle",
                                 !.sampleNodeIndex = TRUE,
                                 !.storedBudNode = bud,
                                 !.storedTrunkNode = trunk,
                                 !.swapBudTrunk = swap,
                                 !.proposedBudNode = IF swap THEN trunk ELSE bud,
                                 !.proposedTrunkNode = IF swap THEN bud ELSE trunk,
                                 !.pathNodes = <<nd, first, second>>]
    /\ UNCHANGED <<mcmcVars, treeSummary, treeOut>>

(***************************************************************************)
(* SpecPrepare: a proposal is constructed over a tree, with a fixed node   *)
(* or without, nodes are assigned and prepareProposal runs.  Every number  *)
(* the generator can give is given again and again, and the function goes  *)
(* on when it can.                                                         *)
(***************************************************************************)
InitPrepare == InitWith(ModelOf(Ones, <<1>>, <<0>>), GoodMoves, GoodMonitors)

NextPrepare ==
    \/ \E numTips \in 1 .. MaxTips :
         \E nd \in {NullNd} \cup InternalNodes(numTips) : CladoConstruct(numTips, nd)
    \/ \E nd \in 1 .. NumberOfNodes(MaxTips) : assignNode(nd)
    \/ PrepareBegin
    \/ \E u \in Uniform01Fine : PrepareDraw(u)
    \/ \E budFirst \in BOOLEAN : \E swap \in BOOLEAN : PrepareRest(budFirst, swap)

SpecPrepare ==
    /\ InitPrepare
    /\ [][NextPrepare]_vars
    /\ \A u \in Uniform01Fine : WF_vars(PrepareDraw(u))
    /\ WF_vars(\E budFirst \in BOOLEAN : \E swap \in BOOLEAN : PrepareRest(budFirst, swap))

(***************************************************************************)
(* TreeSummary.  The trace is a sequence of sampled trees over three taxa, *)
(* each with its topology (the unique newick string), its clades and the   *)
(* tips that are sampled ancestors.  The frequency of a sample is the      *)
(* number of trees it was observed in (it is divided by the number of      *)
(* trees after the burnin to give a probability).  Ages are left out.      *)
(***************************************************************************)
MaxTrace == 3

Taxa == {"A", "B", "C"}

\* the taxon of a node that is not a tip
NoTaxon == ""

\* Tree* best_tree = NULL
NullTree == ""

Newicks == {"((A,B),C)", "((A,C),B)", "((B,C),A)"}

\* the clade of the inner node that is not the root
Cherry(newick) ==
    CASE newick = "((A,B),C)" -> {"A", "B"}
      [] newick = "((A,C),B)" -> {"A", "C"}
      [] OTHER -> {"B", "C"}

\* fillConditionalClades: the clade of every node, the tips and the root
\* included
CladesOf(newick) == {{t} : t \in Taxa} \cup {Taxa, Cherry(newick)}

SampledTrees ==
    {[newick |-> "((A,B),C)", sa |-> {}],
     [newick |-> "((A,C),B)", sa |-> {}],
     [newick |-> "((B,C),A)", sa |-> {"A"}]}

Traces == UNION {[1 .. n -> SampledTrees] : n \in 1 .. MaxTrace}

\* the arguments of setBurnin
BurninArgs == (0 - 2) .. MaxTrace

\* size_t(b) of an int b.  size_t has 64 bits; the numbers of the model
\* have 32, so the model wraps at 2^30, which like 2^64 is above the size
\* of every trace.
SizeT(b) == b % (2 ^ 30)

BurninTooLarge == "Burnin size is too large for the tree trace."

\* (mutant) setBurnin that leaves the flag alone
setBurninKeepsFlag(ts, b) ==
    IF b >= Len(ts.trace) /\ ts.use_tree_trace
    THEN [thrown |-> BurninTooLarge, ts |-> ts]
    ELSE [thrown |-> "",
          ts |-> [ts EXCEPT !.burnin = IF b = 0 - 1 THEN Len(ts.trace) \div 4 ELSE SizeT(b)]]

\* setBurnin on the object ts: what is thrown and the object afterwards
setBurninOf(ts, b) ==
    IF b >= Len(ts.trace) /\ ts.use_tree_trace
    THEN [thrown |-> BurninTooLarge, ts |-> ts]
    ELSE LET new == IF b = 0 - 1 THEN Len(ts.trace) \div 4 ELSE SizeT(b)
         IN [thrown |-> "",
             ts |-> [ts EXCEPT !.burnin = new,
                               !.summarized = @ /\ ts.burnin = new]]

\* the members after the initialiser list; junk is the value burnin has
\* before the first assignment to it
NewSummary(t, useTrace, junk) ==
    [alive |-> TRUE, trace |-> t, use_tree_trace |-> useTrace, burnin |-> junk,
     summarized |-> FALSE, treeSamples |-> <<>>, cladeSamples |-> <<>>,
     treeCladeAges |-> <<>>, sampledAncestorSamples |-> <<>>]

\* TreeSummary(): no trace
TreeSummaryDefault ==
    /\ \E junk \in {0, 1} :
         treeSummary' = setBurninOf(NewSummary(<<>>, FALSE, junk), 0).ts
    /\ treeOut' = [NoCall EXCEPT !.call = "construct"]
    /\ UNCHANGED <<mcmcVars, clado>>

\* TreeSummary(t): a copy of the trace t, whose burnin is b
TreeSummaryConstruct(t, b) ==
    /\ \E junk \in {0, 1} :
         \E done \in {setBurninOf(NewSummary(t, TRUE, junk), b)} :
            /\ treeSummary' = IF done.thrown = "" THEN done.ts ELSE NoSummary
            /\ treeOut' = [NoCall EXCEPT !.call = "construct", !.b = b,
                                         !.thrown = done.thrown]
    /\ UNCHANGED <<mcmcVars, clado>>

setBurnin(b) ==
    /\ treeSummary.alive
    /\ \E done \in {setBurninOf(treeSummary, b)} :
         /\ treeSummary' = done.ts
         /\ treeOut' = [NoCall EXCEPT !.call = "setBurnin", !.b = b,
                                      !.thrown = done.thrown]
    /\ UNCHANGED <<mcmcVars, clado>>

\* the trees for (size_t i = burnin; i < trace.size(); ++i) visits
PostBurnin(ts) == {i \in 1 .. Len(ts.trace) : i > ts.burnin}

SeenNewicks(ts) == {ts.trace[i].newick : i \in PostBurnin(ts)}

SeenClades(ts) == UNION {CladesOf(nw) : nw \in SeenNewicks(ts)}

TreeFrequency(ts, nw) == Cardinality({i \in PostBurnin(ts) : ts.trace[i].newick = nw})

CladeFrequency(ts, c) ==
    Cardinality({i \in PostBurnin(ts) : c \in CladesOf(ts.trace[i].newick)})

AncestorFrequency(ts, t) == Cardinality({i \in PostBurnin(ts) : t \in ts.trace[i].sa})

\* the orders VectorUtilities::sort can leave the tree samples in: by
\* frequency, the least first
TreeOrders(ts) ==
    {o \in [1 .. Cardinality(SeenNewicks(ts)) -> SeenNewicks(ts)] :
        \A i, j \in DOMAIN o :
            i < j => /\ o[i] # o[j]
                     /\ TreeFrequency(ts, o[i]) <= TreeFrequency(ts, o[j])}

\* summarize when the flag is not set, the tree samples coming out in the
\* order o
Recomputed(ts, o) ==
    [ts EXCEPT
       !.treeSamples = [i \in DOMAIN o |->
                          [value |-> o[i], frequency |-> TreeFrequency(ts, o[i])]],
       !.cladeSamples = [c \in SeenClades(ts) |-> CladeFrequency(ts, c)],
       !.treeCladeAges = [nw \in SeenNewicks(ts) |-> CladesOf(nw)],
       !.sampledAncestorSamples =
           IF \E t \in Taxa : AncestorFrequency(ts, t) > 0
           THEN [t \in Taxa |-> AncestorFrequency(ts, t)]
           ELSE <<>>,
       !.summarized = TRUE]

\* the objects summarize can leave
Summarized(ts) ==
    IF ts.summarized THEN {ts} ELSE {Recomputed(ts, o) : o \in TreeOrders(ts)}

summarize ==
    /\ treeSummary.alive
    /\ Len(treeSummary.trace) > 0
    /\ \E ts \in Summarized(treeSummary) :
         /\ treeSummary' = ts
         /\ treeOut' = [NoCall EXCEPT !.call = "summarize",
                                      !.recomputed = ~treeSummary.summarized]
    /\ UNCHANGED <<mcmcVars, clado>>

\* the clade credibility of the tree nw: cc is the sum of log(frequency)
\* over its clades, which is the logarithm of the product of the
\* frequencies; the model compares the products
RECURSIVE Product(_, _)
Product(freq, cs) ==
    IF cs = {} THEN 1
    ELSE LET c == CHOOSE c \in cs : TRUE
         IN freq[c] * Product(freq, cs \ {c})

Credibility(ts, nw) == Product(ts.cladeSamples, ts.treeCladeAges[nw])

\* the loop of mccTree from tree sample t on: best is replaced when
\* cc > max_cc
RECURSIVE BestFrom(_, _, _, _)
BestFrom(ts, t, best, max) ==
    IF t > Len(ts.treeSamples) THEN best
    ELSE LET nw == ts.treeSamples[t].value
         IN IF Credibility(ts, nw) > max
            THEN BestFrom(ts, t + 1, nw, Credibility(ts, nw))
            ELSE BestFrom(ts, t + 1, best, max)

\* annotateTree looks up the sampled-ancestor sample of every node of the
\* tree with operator[], when there are such samples: the taxon of the
\* inner nodes gets a sample that was never observed
Annotated(ts) ==
    IF ts.sampledAncestorSamples = <<>> THEN ts
    ELSE [ts EXCEPT !.sampledAncestorSamples =
             [t \in DOMAIN @ \cup {NoTaxon} |-> IF t \in DOMAIN @ THEN @[t] ELSE 0]]

\* mccTree: summarize, the loop with max_cc = 0 (the product 1), then
\* annotateTree(*best_tree); with best_tree still NULL that is undefined,
\* the call crashes or comes back
mccTree ==
    /\ treeSummary.alive
    /\ Len(treeSummary.trace) > 0
    /\ \E ts \in Summarized(treeSummary) :
         \E best \in {BestFrom(ts, 1, NullTree, 1)} :
            /\ treeSummary' = IF best = NullTree THEN ts ELSE Annotated(ts)
            /\ \E end \in IF best = NullTree THEN {"crashed", ""} ELSE {""} :
                 treeOut' = [NoCall EXCEPT !.call = "mccTree", !.result = best,
                                           !.thrown = end,
                                           !.recomputed = ~treeSummary.summarized]
    /\ UNCHANGED <<mcmcVars, clado>>

(***************************************************************************)
(* SpecSummary: a TreeSummary is constructed with a trace or without (and  *)
(* again when the constructor has thrown), the burnin is set, and the      *)
(* trace is summarised, on request or for the maximum clade credibility    *)
(* tree.                                                                   *)
(***************************************************************************)
InitSummary == InitWith(ModelOf(Ones, <<1>>, <<0>>), GoodMoves, GoodMonitors)

NextSummary ==
    \/ TreeSummaryDefault /\ ~treeSummary.alive
    \/ \E t \in Traces : \E b \in {0, 1} : TreeSummaryConstruct(t, b) /\ ~treeSummary.alive
    \/ \E b \in BurninArgs : setBurnin(b)
    \/ summarize
    \/ mccTree

SpecSummary == InitSummary /\ [][NextSummary]_vars

(***************************************************************************)
(* Claims about initializeSampler, checked under SpecInit.                 *)
(***************************************************************************)
InitEnded == pc = "idle" /\ outcome \in {"init_returned", "init_thrown"}

\* C1: when every evaluation attempt of initializeSampler finds a node
\* whose lnProb is not computable, there are exactly 100 attempts and then
\* the fatal error: no 101st attempt, no normal return.
C1_AllFailThrowsAfter100 ==
    /\ attempts <= 100
    /\ (pc = "init_end" /\ failures = attempts) => attempts = 100
    /\ (InitEnded /\ failures = attempts) =>
          /\ outcome = "init_thrown"
          /\ attempts = 100
          /\ errMsg = "Unable to find a starting state with computable probability"
          /\ errTries = 100

C1_Witness == InitEnded /\ outcome = "init_thrown" /\ failures = 100 /\ attempts = 100

\* C2: when initializeSampler returns normally, the last evaluation attempt
\* obtained a computable lnProb for every node, every node was kept after
\* that evaluation, nothing was redrawn afterwards, and the schedule exists
\* and works on the chain's own move list.
C2_ReturnImpliesValidStart ==
    (InitEnded /\ outcome = "init_returned") =>
        LET ns == heap[chains[cur].model]
            evals == {i \in 1 .. Len(evalLog) : evalLog[i].op = "getLnProbability"}
            keeps == {i \in 1 .. Len(evalLog) : evalLog[i].op = "keep"}
        IN /\ \A n \in NodeKeys :
                /\ \E i \in evals : evalLog[i].node = n /\ evalLog[i].ok
                /\ \E j \in keeps : evalLog[j].node = n
           /\ \A i \in evals : evalLog[i].ok /\ \A j \in keeps : i < j
           /\ redrawLog = <<>>
           /\ \A n \in NodeKeys :
                /\ isAComputableNumber(ns[n].lnProb)
                /\ ns[n].lnProb = LnPdf(ns, n)
                /\ ns[n].flag = "clean"
                /\ ns[n].stored = ns[n].value
           /\ chains[cur].schedule.type \in {"sequential", "single", "random"}
           /\ chains[cur].schedule.moves = cur

C2_Witness ==
    /\ InitEnded /\ outcome = "init_returned"
    /\ failures > 0
    /\ chains[cur].schedule.type = "random"

\* C3: no clamped node is ever redrawn (its value stays the template's); a
\* redraw round redraws every unclamped stochastic node of
\* getOrderedStochasticNodes once, in that order, and touches the clamped
\* ones; every failed attempt is followed by such a round.
ExpectedRound ==
    [i \in 1 .. Len(orderedStochNodes) |->
        Call(IF isClamped(orderedStochNodes[i]) THEN "touch" ELSE "redraw",
             orderedStochNodes[i], TRUE)]

LastAttemptFailed == \E i \in 1 .. Len(evalLog) : ~evalLog[i].ok

C3_ClampedNeverRedrawn ==
    /\ \A i \in 1 .. Len(redrawLog) :
          redrawLog[i].op = "redraw" => ~isClamped(redrawLog[i].node)
    /\ \A c \in ChainIds : chains[c].alive =>
          \A n \in NodeKeys : isClamped(n) =>
              heap[chains[c].model][n].value = heap[Template][n].value
    /\ redrawLog # <<>> => redrawLog = ExpectedRound
    /\ LastAttemptFailed => redrawLog = ExpectedRound

C3_Witness ==
    /\ LastAttemptFailed
    /\ pc = "init_loop"
    /\ \E i \in 1 .. Len(redrawLog) : redrawLog[i] = Call("touch", "y", TRUE)
    /\ heap[chains[cur].model]["x"].value # heap[chains[cur].model]["x"].stored

(***************************************************************************)
(* Claims about Move::perform and nextCycle, checked under SpecCycle.      *)
(***************************************************************************)
\* the Move being performed by the running nextCycle
TheMove == chains[chains[cur].schedule.moves].moves[cyc.move]

\* C4: a proposal that is applied and then undone leaves no trace.  After
\* undoProposal of the slide proposal every element of the vector has its
\* pre-proposal value and no element index is recorded as touched; after
\* the restore() that follows, every node of the chain's model has its
\* pre-apply value and its pre-apply cached log-probability.
C4_UndoRestoresPreApplyState ==
    /\ cyc.phase = "undone" =>
          LET n == TheMove.variable
          IN /\ heap[n.m][n.k].value = cyc.pre[n.k].value
             /\ heap[n.m][n.k].touchedElems = {}
    /\ cyc.phase = "rejected" =>
          \A k \in NodeKeys :
             /\ heap[chains[cur].model][k].value = cyc.pre[k].value
             /\ heap[chains[cur].model][k].lnProb = cyc.pre[k].lnProb
             /\ heap[chains[cur].model][k].touchedElems = {}

C4_Witness ==
    /\ cyc.phase = "rejected"
    /\ SlideDelta(TheMove.lambda, cyc.u) # 0
    /\ TheMove.storedValue + SlideDelta(TheMove.lambda, cyc.u) >= 0

\* C5: after an accepted move the sum of the cached node log-probabilities
\* equals the sum obtained by touching every node and recomputing.
C5_ShortcutEqualsRecomputed ==
    cyc.phase = "accepted" =>
        /\ isAComputableNumber(ShortcutLnProb(heap[chains[cur].model]))
        /\ ShortcutLnProb(heap[chains[cur].model]) = TouchedLnProb(heap[chains[cur].model])

C5_Witness ==
    /\ cyc.phase = "accepted"
    /\ SlideDelta(TheMove.lambda, cyc.u) # 0
    /\ ShortcutLnProb(heap[chains[cur].model]) # ShortcutLnProb(cyc.pre)

\* C6: in every reachable state and for every node of a live Model (the
\* template, the Model of a chain), a second keep() right
\* after a first one changes neither the value, nor the rollback value,
\* nor the cached log-probability of any node.
C6_KeepTwiceIsKeepOnce ==
    \A m \in {Template} \cup {chains[c].model : c \in {d \in ChainIds : chains[d].alive}} :
      \A n \in NodeKeys :
        \A once \in {Keep(heap[m], n)} :
          \A twice \in {Keep(once, n)} :
            \A k \in NodeKeys :
              /\ twice[k].value = once[k].value
              /\ twice[k].stored = once[k].stored
              /\ twice[k].lnProb = once[k].lnProb

C6_Witness ==
    /\ cyc.phase = "decided"
    /\ cyc.accept
    /\ \E n \in NodeKeys :
          /\ heap[chains[cur].model][n].flag = "ready"
          /\ heap[chains[cur].model][n].value # heap[chains[cur].model][n].stored
          /\ Keep(heap[chains[cur].model], n) # heap[chains[cur].model]

\* C7: no step of the chain (construction, initialization with its redraws,
\* cycles) changes a node value of the template Model, and a change of a
\* template node by its owner changes no node of any other Model.
C7_TemplateAndCloneIndependent ==
    [][IF \E v \in DrawSet("x") : MutateTemplate("x", v)
       THEN \A m \in ModelIds \ {Template} : heap'[m] = heap[m]
       ELSE \A k \in NodeKeys : heap'[Template][k].value = heap[Template][k].value]_vars

C7_Witness ==
    /\ tmplMutated
    /\ pc = "idle"
    /\ chains[1].alive
    /\ chains[1].model # Template
    /\ chains[1].moves # <<>>
    /\ chains[1].moves[1].accepted > 0
    /\ heap[chains[1].model]["x"].value # heap[Template]["x"].value

\* C10: on a chain whose Move list is empty the schedule reports zero moves
\* per iteration, no nextCycle returns normally and the generation counter
\* stays at 0.
C10_EmptyMoveListIsFatal ==
    \A c \in ChainIds :
        (chains[c].alive /\ chains[c].moves = <<>>) =>
            /\ getNumberMovesPerIteration(chains[c].schedule, chains[c].moves) = 0
            /\ ~(cur = c /\ outcome = "cycle_returned")
            /\ chains[c].generation = 0

(***************************************************************************)
(* Claims about replaceDag and the ownership of chains, checked under      *)
(* SpecChains.                                                             *)
(***************************************************************************)
OwnNodes(c) == {Ref(chains[c].model, k) : k \in NodeKeys}

SeqRange(q) == {q[i] : i \in 1 .. Len(q)}

\* the path proposals a Move points to, and every node the Move, its
\* proposal and its path proposals point to
PathsOf(mv) == {mv.nodeProposal, mv.leftProposal, mv.rightProposal} \ {NoPath}

MoveTargets(mv) ==
    (SeqRange(mv.nodes) \cup SeqRange(mv.pnodes)
       \cup {mv.variable, mv.ctmc, mv.tau, mv.qmap}
       \cup UNION {{paths[i].ctmc, paths[i].tau, paths[i].qmap} : i \in PathsOf(mv)})
    \ {NullNode}

ChainPaths(c) == UNION {PathsOf(chains[c].moves[i]) : i \in 1 .. Len(chains[c].moves)}

\* C8: once a chain is constructed, copy-constructed or assigned, every
\* node its Moves and Monitors point to is the node of its own Model with
\* the name the handed-in Move or Monitor pointed to, its schedule works on
\* its own Move list, and two chains share no Model and no proposal object.
C8_ChainsShareNothing ==
    pc = "idle" =>
      /\ \A c \in ChainIds : chains[c].alive =>
            /\ Len(chains[c].moves) = Len(inMoves)
            /\ \A i \in 1 .. Len(chains[c].moves) :
                  /\ MoveTargets(chains[c].moves[i]) \subseteq OwnNodes(c)
                  /\ \A j \in 1 .. Len(inMoves[i].nodes) :
                        chains[c].moves[i].nodes[j] =
                            Ref(chains[c].model, getName(inMoves[i].nodes[j]))
            /\ Len(chains[c].monitors) = Len(inMonitors)
            /\ \A i \in 1 .. Len(chains[c].monitors) :
                  /\ chains[c].monitors[i].model = chains[c].model
                  /\ \A j \in 1 .. Len(inMonitors[i].nodes) :
                        chains[c].monitors[i].nodes[j] =
                            Ref(chains[c].model, getName(inMonitors[i].nodes[j]))
            /\ chains[c].schedule # NoSchedule => chains[c].schedule.moves = c
            /\ chains[c].model \in ModelIds \ {Template}
      /\ \A c, d \in ChainIds : (c # d /\ chains[c].alive /\ chains[d].alive) =>
            /\ chains[c].model # chains[d].model
            /\ ChainPaths(c) \cap ChainPaths(d) = {}

\* a node that replaceDag cannot rebind
BadNode(r) == getName(r) = "" \/ getName(r) \notin NodeKeys

BadMoves == {i \in 1 .. Len(inMoves) : \E j \in 1 .. Len(inMoves[i].nodes) :
                BadNode(inMoves[i].nodes[j])}

BadMonitors == {i \in 1 .. Len(inMonitors) : \E j \in 1 .. Len(inMonitors[i].nodes) :
                   BadNode(inMonitors[i].nodes[j])}

Least(S) == CHOOSE i \in S : \A j \in S : i <= j

\* the first node of a list that cannot be rebound
FirstBadNode(nodes) == nodes[Least({j \in 1 .. Len(nodes) : BadNode(nodes[j])})]

MessageFor(r) == IF getName(r) = "" THEN "variable name was lost"
                 ELSE "Cannot find node with name"

\* C9: when a handed-in Move or Monitor points to a node whose name is
\* empty or is the name of no node of the chain's model, replaceDag throws
\* at the first such node with the message for it; initializeSampler is not
\* reached and nothing is tried again; the Moves and Monitors before the
\* failing one were added, the failing one and those after it were not, and
\* no chain exists afterwards.
C9_UnboundTargetIsFatal ==
    /\ (BadMoves # {} \/ BadMonitors # {}) =>
          /\ \A c \in ChainIds : ~chains[c].alive
          /\ pc = "idle"
          /\ attempts = 0 /\ numTries = 0
          /\ nextModel > 1 => outcome = "replaceDag_thrown"
    /\ outcome = "replaceDag_thrown" =>
          /\ BadMoves # {} \/ BadMonitors # {}
          /\ IF BadMoves # {}
             THEN /\ errMsg = MessageFor(FirstBadNode(inMoves[Least(BadMoves)].nodes))
                  /\ Len(chains[cur].moves) = Least(BadMoves) - 1
                  /\ chains[cur].monitors = <<>>
             ELSE /\ errMsg = MessageFor(FirstBadNode(inMonitors[Least(BadMonitors)].nodes))
                  /\ Len(chains[cur].moves) = Len(inMoves)
                  /\ Len(chains[cur].monitors) = Least(BadMonitors) - 1
          /\ \A i \in 1 .. Len(chains[cur].moves) :
                \A j \in 1 .. Len(chains[cur].moves[i].nodes) :
                    ~BadNode(chains[cur].moves[i].nodes[j])
          /\ \A i \in 1 .. Len(chains[cur].monitors) :
                \A j \in 1 .. Len(chains[cur].monitors[i].nodes) :
                    ~BadNode(chains[cur].monitors[i].nodes[j])

C9_Witness ==
    /\ outcome = "replaceDag_thrown"
    /\ errMsg = "Cannot find node with name"
    /\ BadMoves = {}
    /\ Len(chains[cur].moves) = 2
    /\ Len(chains[cur].monitors) = 1
    /\ nextModel = 3

(***************************************************************************)
(* Claims about the schedules, checked under SpecSchedule.                 *)
(***************************************************************************)
\* the update weights of the Moves of chain c
WeightsOf(c) == [i \in 1 .. Len(chains[c].moves) |-> chains[c].moves[i].weight]

\* C11: what a schedule over a non-empty Move list reports as its moves per
\* iteration: a weighted-random schedule the sum of the weights (10 for the
\* weights 2, 3, 5), a sequential schedule the number of Moves (4 for four
\* Moves), a single-random schedule 1 whatever the weights.
C11_MovesPerIterationByVariant ==
    /\ (outcome = "described" /\ description.scheduleType \in {"random", "sequential"}
          /\ chains[cur].moves # <<>>) =>
          /\ description.moves = Len(chains[cur].moves)
          /\ chains[cur].schedule.type = "random" =>
                /\ description.perIteration = SumSeq(WeightsOf(cur))
                /\ WeightsOf(cur) = <<2 * WeightUnit, 3 * WeightUnit, 5 * WeightUnit>> =>
                      description.perIteration = 10 * WeightUnit
          /\ chains[cur].schedule.type = "sequential" =>
                /\ description.perIteration = WeightUnit * Len(chains[cur].moves)
                /\ Len(chains[cur].moves) = 4 => description.perIteration = 4 * WeightUnit
          /\ chains[cur].schedule.type = "single" => description.perIteration = WeightUnit
    /\ (pc = "cycle" /\ chains[cur].moves # <<>>) =>
          /\ chains[cur].schedule.type = "single" => cyc.movesPerIteration = WeightUnit
          /\ chains[cur].schedule.type = "sequential" =>
                cyc.movesPerIteration = WeightUnit * Len(chains[cur].moves)
          /\ chains[cur].schedule.type = "random" =>
                cyc.movesPerIteration = SumSeq(WeightsOf(cur))

C11_Witness ==
    /\ outcome = "described"
    /\ chains[cur].schedule.type = "random"
    /\ WeightsOf(cur) = <<2 * WeightUnit, 3 * WeightUnit, 5 * WeightUnit>>
    /\ description.moves = 3
    /\ description.perIteration = 10 * WeightUnit

\* C12: in a running nextCycle the number of proposals is the schedule's
\* moves per iteration rounded to the nearest integer (halves away from
\* zero); one Move is asked of the schedule per pass of the loop, each
\* request passes the chain's generation counter, which does not change
\* before the cycle ends, and each Move asked for is performed once; the
\* cycle returns after exactly that number of requests and performs.
C12_ProposalsPerCycle ==
    /\ [](pc = "cycle" =>
            /\ cyc.movesPerIteration =
                   getNumberMovesPerIteration(chains[cur].schedule, ScheduledMoves(cur))
            /\ WeightUnit * cyc.proposals \in
                   {cyc.movesPerIteration, cyc.movesPerIteration + 1}
            /\ cyc.i <= cyc.proposals
            /\ cyc.performed = cyc.i
            /\ Len(cyc.requests) = cyc.i + (IF cyc.phase = "idle" THEN 0 ELSE 1)
            /\ \A j \in 1 .. Len(cyc.requests) :
                  /\ cyc.requests[j] = chains[cur].generation
                  /\ cyc.requests[j] = advances[cur])
    /\ [][(pc = "cycle" /\ pc' = "idle") =>
            /\ Len(cyc.requests) = cyc.proposals
            /\ cyc.performed = cyc.proposals]_vars

C12_Witness ==
    /\ pc = "cycle"
    /\ cyc.phase = "idle"
    /\ cyc.movesPerIteration = 1
    /\ cyc.proposals = 1
    /\ cyc.i = 1
    /\ cyc.requests = <<1>>

\* C19: whatever the schedule type, the Move a running nextCycle got from
\* the schedule has a weight above 0, and a Move whose weight is 0 or below
\* has never been performed.
C19_NonPositiveWeightNeverSelected ==
    /\ (pc = "cycle" /\ cyc.move # 0) =>
          chains[chains[cur].schedule.moves].moves[cyc.move].weight > 0
    /\ \A c \in ChainIds : \A i \in 1 .. Len(chains[c].moves) :
          chains[c].moves[i].weight <= 0 =>
             /\ chains[c].moves[i].tried = 0
             /\ chains[c].moves[i].accepted = 0

C19_Witness ==
    /\ outcome = "cycle_returned"
    /\ chains[cur].schedule.type = "sequential"
    /\ WeightsOf(cur) = <<WeightUnit, 0>>
    /\ chains[cur].moves[1].tried = 2
    /\ chains[cur].moves[2].tried = 0

(***************************************************************************)
(* Claims about the run of a chain, checked under SpecDriver.              *)
(***************************************************************************)
\* C13: the generation counter of a chain equals the number of advancing
\* cycles that returned since its initializeSampler; it changes only when
\* initializeSampler sets it to 0 and at the end of a cycle, after the last
\* proposal, by 1 if the cycle is advancing and not at all otherwise.
C13_GenerationCountsAdvancingCycles ==
    /\ [](\A c \in ChainIds : chains[c].alive => chains[c].generation = advances[c])
    /\ [][\A c \in ChainIds :
            chains'[c].generation # chains[c].generation =>
               \/ pc \in {"idle", "init_end"} /\ chains'[c].generation = 0
               \/ /\ pc = "cycle" /\ pc' = "idle" /\ c = cur
                  /\ cyc.i = cyc.proposals /\ cyc.performed = cyc.proposals
                  /\ cyc.advanceCycle
                  /\ chains'[c].generation = chains[c].generation + 1]_vars
    /\ [][(pc = "cycle" /\ pc' = "idle" /\ ~cyc.advanceCycle) =>
             chains'[cur].generation = chains[cur].generation]_vars

C13_Witness ==
    /\ outcome = "cycle_returned"
    /\ chains[1].generation = 1
    /\ Len(chains[1].moves) = 1
    /\ chains[1].moves[1].tried = 2

\* C14: the last call of monitor() triggered a monitor only if the chain
\* was flagged active at the call.
C14_InactiveChainIsSilent ==
    monitorLog.triggered > 0 => monitorLog.chainActive

\* the phases a proposal attempt goes through, with the calls made so far
PhaseCalls(ph) ==
    CASE ph = "idle"     -> <<>>
      [] ph = "prepared" -> <<"prepareProposal">>
      [] ph = "applied"  -> <<"prepareProposal", "doProposal", "touch">>
      [] ph = "decided"  -> <<"prepareProposal", "doProposal", "touch", "getLnProbability">>
      [] ph = "accepted" -> <<"prepareProposal", "doProposal", "touch", "getLnProbability",
                              "keep", "cleanProposal">>
      [] ph = "undone"   -> <<"prepareProposal", "doProposal", "touch", "getLnProbability",
                              "undoProposal">>
      [] ph = "rejected" -> <<"prepareProposal", "doProposal", "touch", "getLnProbability",
                              "undoProposal", "restore">>

PhaseOrder ==
    {<<"idle", "prepared">>, <<"prepared", "applied">>, <<"applied", "decided">>,
     <<"decided", "accepted">>, <<"decided", "undone">>, <<"undone", "rejected">>,
     <<"accepted", "idle">>, <<"rejected", "idle">>}

\* no node of the model is dirty or recomputed-but-unkept, and no element
\* index of a vector is recorded as touched
AllClean(ns) == \A k \in NodeKeys : ns[k].flag = "clean" /\ ns[k].touchedElems = {}

\* C15: a proposal attempt goes idle, prepared, applied, decided, and then
\* either accepted (keep() on the nodes, then cleanProposal, after an
\* acceptance only) or undone and rejected (undoProposal, then restore() on
\* the nodes, after a rejection only), and back to idle; between two
\* attempts, and between two cycles, no node of the chain's model is dirty
\* and no element index is recorded as touched.
C15_AttemptLifecycle ==
    /\ [](/\ cyc.calls = PhaseCalls(cyc.phase)
          /\ cyc.phase = "accepted" => cyc.accept
          /\ cyc.phase \in {"undone", "rejected"} => ~cyc.accept
          /\ (cyc.phase = "idle" /\ chains[cur].alive /\ chains[cur].schedule # NoSchedule) =>
                AllClean(heap[chains[cur].model]))
    /\ [][cyc'.phase # cyc.phase => <<cyc.phase, cyc'.phase>> \in PhaseOrder]_vars

C15_Witness ==
    /\ pc = "cycle"
    /\ cyc.phase = "idle"
    /\ cyc.i = 2
    /\ Len(chains[cur].moves) = 2
    /\ chains[cur].moves[1].tried = 1 /\ chains[cur].moves[1].accepted = 1
    /\ chains[cur].moves[2].tried = 1 /\ chains[cur].moves[2].accepted = 0
    /\ heap[chains[cur].model]["x"].value # Ones

\* the sum of the tried counters, computed on the list of counters
TriedOf(c) == SumSeq([i \in 1 .. Len(chains[c].moves) |-> chains[c].moves[i].tried])

SansCounters(mv) == [mv EXCEPT !.tried = 0, !.accepted = 0]

\* C17: a step of reset() on a chain leaves the tried and the accepted
\* counter of every Move of the chain at zero and changes nothing else: not
\* the generation counter, the heats, the activity flag, the schedule and
\* its type, the Model and the monitors of the chain, not the tuning
\* parameter or anything else of a Move, no node of any Model, no other
\* chain.
C17_ResetClearsCountersOnly ==
    [][\A c \in ChainIds : reset(c) =>
          /\ Len(chains'[c].moves) = Len(chains[c].moves)
          /\ \A i \in 1 .. Len(chains[c].moves) :
                /\ chains'[c].moves[i].tried = 0
                /\ chains'[c].moves[i].accepted = 0
                /\ chains'[c].moves[i].lambda = chains[c].moves[i].lambda
                /\ SansCounters(chains'[c].moves[i]) = SansCounters(chains[c].moves[i])
          /\ [chains'[c] EXCEPT !.moves = <<>>] = [chains[c] EXCEPT !.moves = <<>>]
          /\ \A d \in ChainIds \ {c} : chains'[d] = chains[d]
          /\ heap' = heap
          /\ paths' = paths]_vars

C17_Witness ==
    /\ outcome = "reset_returned"
    /\ chains[1].generation = 1
    /\ chains[1].moves # <<>>
    /\ TriedOf(1) = 0
    /\ heap[chains[1].model]["x"].value # Ones

\* the nodes reached from the nodes of S along child edges
RECURSIVE ReachFrom(_)
ReachFrom(S) ==
    LET T == S \cup UNION {Children(k) : k \in S}
    IN IF T = S THEN S ELSE ReachFrom(T)

\* the nodes of the chain's model, all touched (what a read from scratch sees)
Fresh(ns) == SetFlags(ns, NodeKeys, "dirty")

\* C20: in every reachable state of the chain's model and for every node n,
\* touch() on n leaves n and every node reached from n along child edges
\* dirty, changes no other flag, no value, no rollback value and no cached
\* log-probability; a second touch() changes nothing more; and when every
\* node was kept and the value of n is changed and n touched, the
\* log-probability read afterwards from n or any node reached from it is
\* the one computed from the current values.
C20_TouchReachesAllDescendants ==
    chains[cur].alive =>
    \A ns \in {heap[chains[cur].model]} :
    \A n \in NodeKeys :
       /\ \A t \in {Touch(ns, n)} :
             /\ \A k \in ReachFrom({n}) : t[k].flag = "dirty"
             /\ \A k \in NodeKeys \ ReachFrom({n}) : t[k] = ns[k]
             /\ \A k \in NodeKeys :
                   /\ t[k].value = ns[k].value
                   /\ t[k].stored = ns[k].stored
                   /\ t[k].lnProb = ns[k].lnProb
                   /\ t[k].storedLnProb = ns[k].storedLnProb
             /\ Touch(t, n) = t
       /\ (n \in {"x", "z"} /\ AllClean(ns)) =>
             \A v \in DrawSet(n) :
             \A t \in {Touch([ns EXCEPT ![n].value = v], n)} :
             \A k \in ReachFrom({n}) :
                 Evaluate(t, k)[k].lnProb = LnPdf(Fresh(t), k)

C20_Witness ==
    /\ pc = "cycle"
    /\ cyc.phase = "applied"
    /\ cyc.pre["x"].flag = "clean" /\ cyc.pre["y"].flag = "clean"
    /\ heap[chains[cur].model]["x"].value # cyc.pre["x"].value
    /\ \A k \in NodeKeys : heap[chains[cur].model][k].flag = "dirty"
    /\ LnPdf(Fresh(heap[chains[cur].model]), "y") # cyc.pre["y"].lnProb

(***************************************************************************)
(* Claims about tuning, checked under SpecTune.                            *)
(***************************************************************************)
\* the acceptance rate 0.44
Target == <<44, 100>>

\* the factor the last tune() changed the tuning parameter by
TunedBy == Rat(tuned.lambda[1] * tuned.before[2], tuned.lambda[2] * tuned.before[1])

RECURSIVE JointFrom(_, _)
JointFrom(ns, i) ==
    IF i > Len(dagNodes) THEN Num(0)
    ELSE LET pr == LnPdf(Fresh(ns), dagNodes[i])
             rest == JointFrom(ns, i + 1)
         IN IF isAComputableNumber(pr) /\ isAComputableNumber(rest)
            THEN Num(pr.v + rest.v) ELSE NaN

JointLnProbability(ns) == JointFrom(ns, 1)

\* the cache of node k is the log-probability of its current value given
\* the current values of its parents
CacheValid(ns, k) ==
    /\ ns[k].lnProb = LnPdf(Fresh(ns), k)
    /\ ns[k].value = ValueOf(Fresh(ns), k)

C27_JointLnProbabilityUnheated ==
    /\ [](outcome = "lnprob_returned" =>
             returned.pp = JointLnProbability(heap[chains[returned.chain].model]))
    /\ [][\A c \in ChainIds : getModelLnProbability(c) =>
             /\ chains' = chains
             /\ \A k \in NodeKeys :
                   /\ ValueOf(heap'[chains[c].model], k) = ValueOf(heap[chains[c].model], k)
                   /\ heap'[chains[c].model][k].stored = heap[chains[c].model][k].stored
             /\ JointLnProbability(heap'[chains[c].model]) =
                   JointLnProbability(heap[chains[c].model])]_vars

C27_Witness ==
    /\ outcome = "lnprob_returned"
    /\ chains[returned.chain].chainPosteriorHeat = 2
    /\ chains[returned.chain].chainLikelihoodHeat = 0
    /\ isAComputableNumber(returned.pp)
    /\ returned.pp.v < 0
    /\ chains[returned.chain].moves[1].accepted > 0

(***************************************************************************)
(* Claims about the heats of a chain, checked under SpecLnProb.            *)
(***************************************************************************)
\* C24: the two heats a proposal performed in nextCycle receives are the
\* chain's likelihood heat and posterior heat at the time of the call; both
\* are 1 on a newly constructed chain; setChainLikelihoodHeat(h) and
\* setLikelihoodHeat(h) make the likelihood heat h and leave the posterior
\* heat, setChainPosteriorHeat(h) makes the posterior heat h and leaves the
\* likelihood heat, and nothing else writes either.
C24_ProposalsUseChainHeats ==
    /\ []((pc = "cycle" /\ cyc.move # 0) =>
             /\ cyc.lHeat = chains[cur].chainLikelihoodHeat
             /\ cyc.pHeat = chains[cur].chainPosteriorHeat)
    /\ [][\A c \in ChainIds :
             (~chains[c].alive /\ chains'[c].alive) =>
                 /\ chains'[c].chainLikelihoodHeat = 1
                 /\ chains'[c].chainPosteriorHeat = 1]_vars
    /\ [][\A c \in ChainIds : \A h \in Heats :
             /\ (setChainLikelihoodHeat(c, h) \/ setLikelihoodHeat(c, h)) =>
                   /\ chains'[c].chainLikelihoodHeat = h
                   /\ chains'[c].chainPosteriorHeat = chains[c].chainPosteriorHeat
             /\ setChainPosteriorHeat(c, h) =>
                   /\ chains'[c].chainPosteriorHeat = h
                   /\ chains'[c].chainLikelihoodHeat = chains[c].chainLikelihoodHeat]_vars
    /\ [][\A c \in ChainIds :
             (/\ chains[c].alive
              /\ \/ chains'[c].chainLikelihoodHeat # chains[c].chainLikelihoodHeat
                 \/ chains'[c].chainPosteriorHeat # chains[c].chainPosteriorHeat) =>
                 \E h \in Heats : \/ setChainLikelihoodHeat(c, h)
                                  \/ setLikelihoodHeat(c, h)
                                  \/ setChainPosteriorHeat(c, h)]_vars

C24_Witness ==
    /\ pc = "cycle"
    /\ cyc.phase = "decided"
    /\ cyc.lHeat = 2
    /\ cyc.pHeat = 0
    /\ chains[cur].chainLikelihoodHeat = 2
    /\ chains[cur].chainPosteriorHeat = 0
    /\ chains[cur].moves[1].tried > 0

(***************************************************************************)
(* Claims about NodeCladogenesisRejectionSampleProposal, checked under     *)
(* SpecChains.                                                             *)
(***************************************************************************)
\* NodeCladogenesisRejectionSampleProposal::getNodes
getNodes(mv) == mv.pnodes

\* C22: once replaceDag has rebound the Moves of a chain, the list getNodes
\* reports for a NodeCladogenesisRejectionSampleProposal of the chain holds,
\* at every place, the node of the chain's Model with the name of the node
\* the handed-in proposal listed there, and none of the nodes swapped out.
C22_SwapNodeRepointsGetNodes ==
    \A c \in ChainIds : \A i \in 1 .. Len(chains[c].moves) :
        (chains[c].alive /\ chains[c].moves[i].kind = "clado") =>
            /\ Len(getNodes(chains[c].moves[i])) = Len(getNodes(inMoves[i]))
            /\ \A j \in 1 .. Len(getNodes(inMoves[i])) :
                  /\ getNodes(chains[c].moves[i])[j] =
                        Ref(chains[c].model, getName(getNodes(inMoves[i])[j]))
                  /\ getNodes(inMoves[i])[j] \notin SeqRange(getNodes(chains[c].moves[i]))

\* C23: no step changes which nodes a path proposal of a handed-in
\* NodeCladogenesisRejectionSampleProposal targets: cloning the proposal for
\* a chain and rebinding the clone leaves the original's nodeProposal,
\* leftProposal and rightProposal as they were.
C23_CloneLeavesOriginal ==
    [][\A i \in 1 .. Len(inMoves) : \A q \in PathsOf(inMoves[i]) :
          paths'[q] = paths[q]]_vars

(***************************************************************************)
(* A claim about log-probabilities that are not computable during the      *)
(* run, checked under SpecCycle.                                           *)
(***************************************************************************)
\* C28: a call of nextCycle in which a log-probability read was not a
\* computable number does not return normally.
C28_NotComputableInCycleIsFatal ==
    [][(pc = "cycle" /\ cyc.notComputable) =>
          ~(pc' = "idle" /\ outcome' = "cycle_returned")]_vars

(***************************************************************************)
(* A claim about operator=, checked under SpecAssign.                      *)
(***************************************************************************)
\* the members the copy constructor copies from the chain it is given
CopiedMembers(ch) ==
    <<ch.chainActive, ch.chainLikelihoodHeat, ch.chainPosteriorHeat, ch.chainIdx,
      ch.scheduleType>>

\* C29: an assignment of chain src to chain c leaves c with the activity
\* flag, the two heats, the chain index and the schedule type of src, and
\* with a Model of its own that no other chain has.
C29_AssignCopiesLikeCopyConstructor ==
    [][\A c, src \in ChainIds : Assign(c, src) =>
          /\ CopiedMembers(chains'[c]) = CopiedMembers(chains[src])
          /\ chains'[c].model # chains[src].model
          /\ chains'[c].model # chains[c].model]_vars

(***************************************************************************)
(* A claim about startMonitors, checked under SpecMonitor.                 *)
(***************************************************************************)
\* C30: startMonitors(numCycles) calls reset(numCycles) on every monitor of
\* the chain, active or not; on an active chain it then opens the stream
\* and prints the header of each monitor, on an inactive chain it opens no
\* stream and prints no header; the chain itself is left as it was.
C30_StartMonitorsResetsAllOpensIfActive ==
    /\ [](started # NoStart =>
             \A i \in DOMAIN started.calls :
                /\ Len(started.calls[i]) >= 1
                /\ started.calls[i][1] = "reset"
                /\ started.chainActive =>
                      started.calls[i] = <<"reset", "openStream", "printHeader">>
                /\ ~started.chainActive =>
                      /\ "openStream" \notin SeqRange(started.calls[i])
                      /\ "printHeader" \notin SeqRange(started.calls[i]))
    /\ [][\A c \in ChainIds : \A n \in CycleCounts : startMonitors(c, n) =>
             /\ DOMAIN started'.calls = DOMAIN chains[c].monitors
             /\ started'.chainActive = chains[c].chainActive
             /\ started'.numCycles = n
             /\ chains' = chains
             /\ heap' = heap]_vars

C30_Witness ==
    /\ outcome = "monitors_started"
    /\ ~started.chainActive
    /\ ~chains[started.chain].chainActive
    /\ started.numCycles = 2
    /\ started.calls = <<<<"reset">>>>
    /\ chains[started.chain].generation > 0

(***************************************************************************)
(* Claims about the random number generator, checked under SpecReplay.     *)
(***************************************************************************)
\* the numbers chain c took from the generator inside nextCycle
CycleDraws(c) ==
    {i \in 1 .. Len(rng.taken[c]) : rng.taken[c][i].op \in {"nextMove", "uniform01"}}

\* C25: the steps of nextCycle of two chains work on no common state: the
\* one generator of the process is not read and advanced by the cycles of
\* more than one chain.
C25_CyclesShareNoState ==
    \A c, d \in ChainIds : (CycleDraws(c) # {} /\ CycleDraws(d) # {}) => c = d

\* what replay compares: the node values, the counters of the Moves and the
\* generation counter of chain c
ReplayState(c) ==
    <<[k \in NodeKeys |-> ValueOf(heap[chains[c].model], k)],
      [i \in 1 .. Len(chains[c].moves) |->
          <<chains[c].moves[i].tried, chains[c].moves[i].accepted>>],
      chains[c].generation>>

ClonedFrom == IF caller = "copy" THEN chains[1].model ELSE Template

Computable(ns) == isAComputableNumber(JointLnProbability(ns))

SameValues(ns, ms) == \A k \in NodeKeys : ValueOf(ns, k) = ValueOf(ms, k)

\* C32: the initializeSampler of a constructor redraws before the first
\* evaluation attempt exactly when the chain is inactive, and then every
\* unclamped stochastic node once; when the cloned model is computable an
\* active chain gets through at the first attempt with every node value of
\* the Model it cloned, and an inactive one starts from what was drawn.
C32_ActiveInitKeepsValues ==
    /\ (pc = "init_loop" /\ attempts = 0) =>
          redrawLog = IF chains[cur].chainActive THEN <<>> ELSE ExpectedRound
    /\ (InitEnded /\ caller \in {"ctor", "copy"} /\ chains[cur].alive
          /\ chains[cur].chainActive /\ Computable(heap[ClonedFrom])) =>
          /\ outcome = "init_returned"
          /\ attempts = 1
          /\ failures = 0
          /\ SameValues(heap[chains[cur].model], heap[ClonedFrom])
    /\ (caller = "ctor" /\ pc \in {"init_begin", "init_loop", "init_end"}) =>
          chains[cur].chainActive

C32_Witness ==
    /\ InitEnded
    /\ outcome = "init_returned"
    /\ caller = "copy"
    /\ ~chains[cur].chainActive
    /\ Computable(heap[ClonedFrom])
    /\ ~SameValues(heap[chains[cur].model], heap[ClonedFrom])
    /\ attempts = 1

(***************************************************************************)
(* Claims about the schedule and the generation counter across             *)
(* initializeSampler, checked under SpecRestart and SpecFatal.             *)
(***************************************************************************)
Initialising == pc \in {"init_loop", "init_end"}

\* C33: while initializeSampler runs the chain has no schedule; when it
\* returns normally the chain has a new schedule of the type set, at its
\* start, and the generation counter is 0, whatever it was before and
\* whatever the generation counter of the chain copied or assigned from is.
C33_InitRestartsScheduleAndGeneration ==
    /\ [](Initialising => chains[cur].schedule = NoSchedule)
    /\ []((InitEnded /\ outcome = "init_returned") =>
             /\ chains[cur].generation = 0
             /\ chains[cur].schedule.pos = 0
             /\ chains[cur].schedule.moves = cur)
    /\ [][(pc = "init_end" /\ outcome' = "init_returned") =>
             /\ chains[cur].schedule = NoSchedule
             /\ chains'[cur].schedule = NewSchedule(cur, chains[cur].scheduleType)
             /\ chains'[cur].generation = 0]_vars

C33_Witness ==
    /\ InitEnded
    /\ outcome = "init_returned"
    /\ caller = "copy"
    /\ cur = 2
    /\ chains[1].generation = 2
    /\ chains[1].schedule.pos > 0
    /\ chains[2].generation = 0
    /\ chains[2].moves[1].tried = 2

\* C34: when initializeSampler has thrown, a chain that still exists (one
\* initialised again or assigned to) has no schedule and the generation
\* counter it had before the call; a constructor that threw leaves no chain.
C34_FatalInitLeavesNoSchedule ==
    /\ (InitEnded /\ outcome = "init_thrown") =>
          /\ caller \in {"ctor", "copy"} => ~chains[cur].alive
          /\ chains[cur].alive =>
                /\ chains[cur].schedule = NoSchedule
                /\ chains[cur].generation = advances[cur]
    /\ \A c \in ChainIds :
          (chains[c].alive /\ chains[c].schedule # NoSchedule) =>
              ~(cur = c /\ (Initialising \/ (InitEnded /\ outcome = "init_thrown")))

C34_Witness ==
    /\ InitEnded
    /\ outcome = "init_thrown"
    /\ caller = "assign"
    /\ chains[cur].alive
    /\ chains[cur].generation = 1
    /\ chains[cur].moves[1].tried = 0
    /\ chains[cur].model # 1

(***************************************************************************)
(* A claim about the schedule type, checked under SpecVariant.             *)
(***************************************************************************)
\* the variant of schedule a type string stands for
VariantFor(st) == CASE st = "sequential" -> "sequential"
                    [] st = "single" -> "single"
                    [] OTHER -> "random"

\* C35: the schedule a successful initializeSampler creates is sequential
\* for the string "sequential", single-random for "single" and
\* weighted-random for every other string; a constructed chain has the
\* string "random"; setScheduleType changes the string and nothing else;
\* and the schedule of a chain changes only in initializeSampler.
C35_VariantFixedAtInit ==
    /\ [][(pc = "init_end" /\ outcome' = "init_returned") =>
             chains'[cur].schedule.type = VariantFor(chains[cur].scheduleType)]_vars
    /\ [][\A c \in ChainIds : (~chains[c].alive /\ chains'[c].alive) =>
             chains'[c].scheduleType = "random"]_vars
    /\ [][\A c \in ChainIds : \A st \in TypeStrings : setScheduleType(c, st) =>
             chains' = [chains EXCEPT ![c].scheduleType = st]]_vars
    /\ [][\A c \in ChainIds :
             chains'[c].schedule.type # chains[c].schedule.type =>
                 (cur = c /\ pc \in {"init_begin", "init_end"})]_vars

C35_Witness ==
    /\ pc = "cycle"
    /\ cyc.phase = "decided"
    /\ chains[cur].scheduleType = "weighted"
    /\ chains[cur].schedule.type = "sequential"
    /\ chains[cur].schedule.pos = 1

(***************************************************************************)
(* A claim about the steps of the slide proposal, checked under            *)
(* SpecVariant.                                                            *)
(***************************************************************************)
\* the value of the vector the Move of the running attempt works on
SlideValue(h) == h[TheMove.variable.m][TheMove.variable.k].value

\* the element indices recorded as touched on that vector
SlideTouched(h) == h[TheMove.variable.m][TheMove.variable.k].touchedElems

\* C36: doProposal changes the element at the fixed index only, by a delta
\* with -lambda/2 <= delta < lambda/2; afterwards exactly that index is
\* recorded as touched; it returns the log Hastings ratio 0 and counts the
\* move neither as tried nor as accepted.  cleanProposal clears the touched
\* indices and changes no element.
C36_SlideFrame ==
    /\ [][(pc = "cycle" /\ cyc.phase = "prepared" /\ cyc'.phase = "applied") =>
            /\ DOMAIN SlideValue(heap') = DOMAIN SlideValue(heap)
            /\ \A i \in DOMAIN SlideValue(heap) :
                  i # TheMove.index => SlideValue(heap')[i] = SlideValue(heap)[i]
            /\ 2 * (SlideValue(heap')[TheMove.index] - SlideValue(heap)[TheMove.index])
                  >= 0 - TheMove.lambda
            /\ 2 * (SlideValue(heap')[TheMove.index] - SlideValue(heap)[TheMove.index])
                  < TheMove.lambda
            /\ \A m \in DOMAIN heap : \A k \in NodeKeys :
                  Ref(m, k) # TheMove.variable => heap'[m][k].value = heap[m][k].value
            /\ SlideTouched(heap') = {TheMove.index}
            /\ doProposal(heap, TheMove, cyc'.u).lnHastings = 0
            /\ TheMove'.tried = TheMove.tried
            /\ TheMove'.accepted = TheMove.accepted]_vars
    /\ [][(pc = "cycle" /\ cyc.phase = "decided" /\ cyc'.phase = "accepted") =>
            /\ SlideTouched(heap) = {TheMove.index}
            /\ SlideTouched(heap') = {}
            /\ \A m \in DOMAIN heap : \A k \in NodeKeys :
                  heap'[m][k].value = heap[m][k].value]_vars

\* an accepted proposal that moved the first element of x down to the lower
\* end of the window, the second element being what it was
C36_Witness ==
    /\ pc = "cycle"
    /\ cyc.phase = "accepted"
    /\ 2 * SlideDelta(TheMove.lambda, cyc.u) = 0 - TheMove.lambda
    /\ SlideValue(heap)[TheMove.index] = TheMove.storedValue + SlideDelta(TheMove.lambda, cyc.u)
    /\ SlideValue(heap)[2] = 1
    /\ SlideTouched(heap) = {}

(***************************************************************************)
(* A claim about prepareProposal of the cladogenesis proposal, checked     *)
(* under SpecPrepare.                                                      *)
(***************************************************************************)
\* C37: prepareProposal terminates.  When no node is fixed or assigned, the
\* loop that draws a node of the tree until the node is not a tip ends,
\* for every tree, a tree whose nodes are all tips included, when every
\* number the generator can give is given again and again.
C37_PrepareTerminates ==
    (clado.alive /\ clado.phase = "loop") ~> (clado.alive /\ clado.phase = "idle")

(***************************************************************************)
(* Claims about TreeSummary, checked under SpecSummary.                    *)
(***************************************************************************)
\* the summaries of ts are what the trees after the burnin give
SummariesMatch(ts) ==
    /\ DOMAIN ts.treeSamples = 1 .. Cardinality(SeenNewicks(ts))
    /\ {ts.treeSamples[i].value : i \in DOMAIN ts.treeSamples} = SeenNewicks(ts)
    /\ \A i \in DOMAIN ts.treeSamples :
          ts.treeSamples[i].frequency = TreeFrequency(ts, ts.treeSamples[i].value)
    /\ DOMAIN ts.cladeSamples = SeenClades(ts)
    /\ \A c \in SeenClades(ts) : ts.cladeSamples[c] = CladeFrequency(ts, c)
    /\ \A t \in Taxa :
          IF t \in DOMAIN ts.sampledAncestorSamples
          THEN ts.sampledAncestorSamples[t] = AncestorFrequency(ts, t)
          ELSE \A r \in Taxa : AncestorFrequency(ts, r) = 0

\* C38: whenever summarized is true, the tree, clade and sampled-ancestor
\* summaries are those of the trace with the current burnin.  setBurnin
\* keeps the flag when the burnin it sets is the one that was set and
\* clears it otherwise; summarize() computes the summaries when the flag is
\* false and changes nothing when it is true.
C38_SummaryCacheValid ==
    /\ []((treeSummary.alive /\ treeSummary.summarized) => SummariesMatch(treeSummary))
    /\ [][treeOut'.call = "construct" /\ treeSummary'.alive => ~treeSummary'.summarized]_vars
    /\ [][treeOut'.call = "setBurnin" =>
            treeSummary'.summarized =
               (treeSummary.summarized /\ treeSummary'.burnin = treeSummary.burnin)]_vars
    /\ [][treeOut'.call = "summarize" =>
            IF treeSummary.summarized
            THEN treeSummary' = treeSummary /\ ~treeOut'.recomputed
            ELSE /\ treeSummary'.summarized
                 /\ treeOut'.recomputed
                 /\ treeSummary'.burnin = treeSummary.burnin
                 /\ SummariesMatch(treeSummary')]_vars

\* summarize() has found the summaries of a burnin of one tree in place:
\* the burnin was changed and set back in between, or not changed at all
C38_Witness ==
    /\ treeSummary.alive
    /\ treeOut.call = "summarize"
    /\ ~treeOut.recomputed
    /\ treeSummary.summarized
    /\ treeSummary.burnin = 1
    /\ Len(treeSummary.trace) = 3
    /\ Len(treeSummary.treeSamples) = 2

\* C39: setBurnin(b) on a TreeSummary that uses a tree trace.  With b not
\* below the size of the trace it throws "Burnin size is too large for the
\* tree trace." and leaves burnin and the flag as they were; b = -1 sets
\* burnin to a quarter of the size, rounded down; every other b that is
\* accepted sets burnin to b; and after every call that does not throw,
\* burnin is below the size of the trace.
C39_SetBurninChecked ==
    [][(treeOut'.call = "setBurnin" /\ treeSummary.use_tree_trace) =>
          IF treeOut'.b >= Len(treeSummary.trace)
          THEN /\ treeOut'.thrown = BurninTooLarge
               /\ treeSummary'.burnin = treeSummary.burnin
               /\ treeSummary'.summarized = treeSummary.summarized
          ELSE /\ treeOut'.thrown = ""
               /\ treeSummary'.burnin =
                     IF treeOut'.b = 0 - 1 THEN Len(treeSummary.trace) \div 4
                     ELSE treeOut'.b
               /\ treeSummary'.burnin < Len(treeSummary.trace)]_vars

\* C40: mccTree on a trace with at least one tree after the burnin gives a
\* tree, one of the sampled topologies, and no sampled topology has a
\* higher clade credibility; also when every clade was observed once.
C40_MccTreeSelectsATree ==
    (/\ treeSummary.alive
     /\ treeOut.call = "mccTree"
     /\ PostBurnin(treeSummary) # {}) =>
        /\ treeOut.thrown = ""
        /\ treeOut.result \in SeenNewicks(treeSummary)
        /\ \A nw \in SeenNewicks(treeSummary) :
              Credibility(treeSummary, treeOut.result) >= Credibility(treeSummary, nw)

====
